---- MODULE Spec2Model ----
(***************************************************************************)
(* chomsky.js: the lexer (tokenize) and the recursive-descent parser       *)
(* (parse) of src/src/parser.ts, as a state machine.                       *)
(*                                                                         *)
(* A string is a sequence of characters, each a one-character TLA+ string. *)
(* JavaScript indexes from 0 and TLA+ from 1: input[cur] is At(input,cur). *)
(***************************************************************************)
EXTENDS Naturals, Sequences, FiniteSets, TLC

VARIABLES
  input,      \* the string handed to tokenize / parse
  gen,        \* the generator object `toks`: where it is suspended, and `cur`
  delivered,  \* the IteratorResults toks.next() has returned so far, in order
  tok_peek,   \* parse's one-token lookahead
  stack,      \* parse's call stack: node / nodeType / nodeList / nodeData frames
  heap,       \* the Tree objects allocated so far (object identity = index)
  ret,        \* the last finished call: <<its function, the value returned>>
  status,     \* "idle" | "running" | "returned" | "thrown"
  thrown,     \* what was thrown: the offending token kind
  other       \* a second call of tokenize / parse: its own input, gen, ..., thrown

\* the variables of one call
callVars == <<input, gen, delivered, tok_peek, stack, heap, ret, status, thrown>>

vars == <<callVars, other>>

----------------------------------------------------------------------------
(* Bounds of the model *)

\* inputs of the tokenizer specification: every string up to this length
MaxTokLen == 4
\* calls of toks.next() made after the generator has finished
MaxExtraNext == 2
\* inputs of the parser specification: every string up to this length
MaxParseLen == 5
\* inputs of the runs followed to their end: every string up to this length
MaxFairLen == 4

----------------------------------------------------------------------------
(* Characters *)

\* const symbols = /[.*/_^[\]]/
symbols == {".", "*", "/", "_", "^", "[", "]"}

\* const whitespace = /\s/ : the characters of \s that the model's inputs use
whitespace == {" ", "\t", "\n"}

\* input[cur] read past the end of a JavaScript string
undefined == "undefined"

\* input[cur]
At(s, c) == IF c < Len(s) THEN s[c + 1] ELSE undefined

\* symbols.test(ch); test(undefined) tests the string "undefined": no match
symbols_test(ch) == ch \in symbols

\* whitespace.test(ch)
whitespace_test(ch) == ch \in whitespace

----------------------------------------------------------------------------
(* Tokens *)

\* type Token = { kind: TokenKind; value?: string }
Token(k, hasValue, v) == [kind |-> k, hasValue |-> hasValue, value |-> v]

\* { kind: input[cur] as TokenKind }
SymbolToken(ch) == Token(ch, FALSE, <<>>)

\* { kind: 'EOF' as const }
EOFToken == Token("EOF", FALSE, <<>>)

\* the `value` of the IteratorResult of a generator that has already finished
NoToken == Token(undefined, FALSE, <<>>)

----------------------------------------------------------------------------
(* tokenize: the generator *)

\* let cur = 0, the generator not yet started
NewGenerator == [pc |-> "start", cur |-> 0]

\* Resuming after `yield {kind: input[cur]}` first runs the pending cur++
ResumeCur(g) == IF g.pc = "symbol" THEN g.cur + 1 ELSE g.cur

\* while (whitespace.test(input[cur])) { tok.value = tok.value.concat(input[cur]); cur++ }
\* at cursor c with value v so far: the final <<value, cur>>
RECURSIVE ScanWhitespace(_, _, _)
ScanWhitespaceOneChar(s, c, v) ==
  IF whitespace_test(At(s, c)) THEN <<Append(v, At(s, c)), c + 1>> ELSE <<v, c>>
ScanWhitespace(s, c, v) ==
  IF whitespace_test(At(s, c))
    THEN ScanWhitespace(s, c + 1, Append(v, At(s, c)))
    ELSE <<v, c>>

\* while (cur < input.length && !symbols.test(input[cur]) && !whitespace.test(input[cur]))
\*   { tok.value = tok.value.concat(input[cur]); cur++ }
RECURSIVE ScanWord(_, _, _)
RECURSIVE ScanWordThroughSymbols(_, _, _)
ScanWordThroughSymbols(s, c, v) ==
  IF c < Len(s) /\ ~whitespace_test(At(s, c))
    THEN ScanWordThroughSymbols(s, c + 1, Append(v, At(s, c)))
    ELSE <<v, c>>
ScanWord(s, c, v) ==
  IF c < Len(s) /\ ~symbols_test(At(s, c)) /\ ~whitespace_test(At(s, c))
    THEN ScanWord(s, c + 1, Append(v, At(s, c)))
    ELSE <<v, c>>

\* yield { kind: input[cur] }: suspended before cur++
YieldSymbolNoAdvance(s, c) ==
  [value |-> SymbolToken(At(s, c)), done |-> FALSE,
   gen |-> [pc |-> "start", cur |-> c]]
YieldSymbol(s, c) ==
  [value |-> SymbolToken(At(s, c)), done |-> FALSE,
   gen |-> [pc |-> "symbol", cur |-> c]]

\* const tok = { kind: 'WHITESPACE', value: '' }; the loop; yield tok
Yielded(kind, r) ==
  [value |-> Token(kind, TRUE, r[1]), done |-> FALSE,
   gen |-> [pc |-> IF kind = "WORD" THEN "word" ELSE "whitespace", cur |-> r[2]]]
YieldWhitespaceDroppingFirst(s, c) ==
  Yielded("WHITESPACE", ScanWhitespace(s, c + 1, <<>>))
YieldWhitespace(s, c) == Yielded("WHITESPACE", ScanWhitespace(s, c, <<>>))

\* const tok = { kind: 'WORD', value: '' }; the loop; yield tok
YieldWord(s, c) == Yielded("WORD", ScanWord(s, c, <<>>))

\* return { kind: 'EOF' }: the generator finishes, done is true
ReturnEOFAsYield(c) ==
  [value |-> EOFToken, done |-> FALSE, gen |-> [pc |-> "eof", cur |-> c]]
ReturnEOF(c) ==
  [value |-> EOFToken, done |-> TRUE, gen |-> [pc |-> "done", cur |-> c]]

\* One call of toks.next(): the generator runs from where it is suspended to
\* its next yield or to its return.  A finished generator answers
\* {value: undefined, done: true}.
GenFrom(s, g, c) ==
  IF g.pc = "done" THEN [value |-> NoToken, done |-> TRUE, gen |-> g]
  ELSE IF c < Len(s)
    THEN IF symbols_test(At(s, c)) THEN YieldSymbol(s, c)
         ELSE IF whitespace_test(At(s, c)) THEN YieldWhitespace(s, c)
         ELSE YieldWord(s, c)
    ELSE ReturnEOF(c)
GenNext(s, g) == GenFrom(s, g, ResumeCur(g))

\* which branch of the generator the next call of toks.next() takes
GenBranch(s, g) ==
  LET c == ResumeCur(g)
  IN  IF g.pc = "done" THEN "finished"
      ELSE IF c < Len(s)
        THEN IF symbols_test(At(s, c)) THEN "symbol"
             ELSE IF whitespace_test(At(s, c)) THEN "whitespace"
             ELSE "word"
        ELSE "eof"

----------------------------------------------------------------------------
(* The tokenizer on its own: a caller that keeps calling toks.next()       *)

\* the characters of the tokenizer specification's inputs
TokAlphabet == symbols \cup {" ", "\n"} \cup {"a", "b"}

StringsUpTo(alphabet, n) == UNION {[1..k -> alphabet] : k \in 0..n}

TokInputs == StringsUpTo(TokAlphabet, MaxTokLen)

\* no call has returned yet; afterwards ret is the function that returned
\* and the value it returned
NoReturn == <<"", <<>> >>

\* the parser's variables before parse is called
ParserIdle ==
  /\ tok_peek = NoToken
  /\ stack = <<>>
  /\ heap = <<>>
  /\ ret = NoReturn
  /\ status = "idle"
  /\ thrown = ""

\* no second call is made: its variables stay as before a call
NoCall ==
  [input |-> <<>>, gen |-> NewGenerator, delivered |-> <<>>, tok_peek |-> NoToken,
   stack |-> <<>>, heap |-> <<>>, ret |-> NoReturn, status |-> "idle", thrown |-> ""]

\* const toks = tokenize(s)
TokInit ==
  /\ input \in TokInputs
  /\ gen = NewGenerator
  /\ delivered = <<>>
  /\ ParserIdle
  /\ other = NoCall

DoneCount(d) == Cardinality({i \in 1..Len(d) : d[i].done})

\* toks.next() taking the given branch of the generator
CallNext(branch) ==
  /\ GenBranch(input, gen) = branch
  /\ LET r == GenNext(input, gen)
     IN  /\ gen' = r.gen
         /\ delivered' = Append(delivered, [value |-> r.value, done |-> r.done])
  /\ UNCHANGED <<input, tok_peek, stack, heap, ret, status, thrown, other>>

NextSymbol == CallNext("symbol")
NextWhitespace == CallNext("whitespace")
NextWord == CallNext("word")
NextEOF == CallNext("eof")
NextAfterDone == DoneCount(delivered) <= MaxExtraNext /\ CallNext("finished")

TokNext == NextSymbol \/ NextWhitespace \/ NextWord \/ NextEOF \/ NextAfterDone

TokSpec == TokInit /\ [][TokNext]_vars

\* the caller goes on calling next() until the bound on calls after the end
TokFairSpec == TokSpec /\ WF_vars(TokNext)

----------------------------------------------------------------------------
(* parse: state, tokens, exceptions *)

\* everything one step of parse reads and writes, as one record
State ==
  [input |-> input, gen |-> gen, delivered |-> delivered, tok_peek |-> tok_peek,
   stack |-> stack, heap |-> heap, ret |-> ret, status |-> status,
   thrown |-> thrown]

\* tok_peek = toks.next().value
Delivered(s, r) ==
  [s EXCEPT !.gen = r.gen,
            !.delivered = Append(@, [value |-> r.value, done |-> r.done]),
            !.tok_peek = r.value]
toks_next(s) == Delivered(s, GenNext(s.input, s.gen))

\* throw: the exception leaves every frame of parse
ThrowAfterAdvance(s, what) ==
  [toks_next(s) EXCEPT !.status = "thrown", !.thrown = what, !.stack = <<>>]
Throw(s, what) == [s EXCEPT !.status = "thrown", !.thrown = what, !.stack = <<>>]

\* tok_peek.kind read while tok_peek is undefined
TypeError == "TypeError"

\* function accept_ws(tokenType = 'WHITESPACE'): <<state, tok>>, tok null = ok FALSE
accept_wsAlwaysAdvance(s, tokenType) ==
  IF s.tok_peek = NoToken
    THEN [st |-> Throw(s, TypeError), ok |-> FALSE, tok |-> NoToken]
  ELSE IF s.tok_peek.kind = tokenType
    THEN [st |-> toks_next(s), ok |-> TRUE, tok |-> s.tok_peek]
  ELSE [st |-> toks_next(s), ok |-> FALSE, tok |-> NoToken]
accept_ws(s, tokenType) ==
  IF s.tok_peek = NoToken
    THEN [st |-> Throw(s, TypeError), ok |-> FALSE, tok |-> NoToken]
  ELSE IF s.tok_peek.kind = tokenType
    THEN [st |-> toks_next(s), ok |-> TRUE, tok |-> s.tok_peek]
  ELSE [st |-> s, ok |-> FALSE, tok |-> NoToken]

\* function accept(tokenType) { accept_ws(); return accept_ws(tokenType); }
acceptNoSkip(s, tokenType) == accept_ws(s, tokenType)
AcceptAfter(a, tokenType) ==
  IF a.st.status = "thrown" THEN [a EXCEPT !.ok = FALSE, !.tok = NoToken]
  ELSE accept_ws(a.st, tokenType)
accept(s, tokenType) == AcceptAfter(accept_ws(s, "WHITESPACE"), tokenType)

\* function expect(tokenType): throw 'Unexpected token!: ' + tok_peek.kind
Expected(a) ==
  IF a.st.status = "thrown" \/ a.ok THEN a
  ELSE [st |-> Throw(a.st, IF a.st.tok_peek = NoToken THEN TypeError
                           ELSE a.st.tok_peek.kind),
        ok |-> FALSE, tok |-> NoToken]
expectNoSkip(s, tokenType) == Expected(accept_ws(s, tokenType))
expect(s, tokenType) == Expected(accept(s, tokenType))

----------------------------------------------------------------------------
(* parse: Tree objects and call frames *)

\* function Tree(): Tree { return { children: [] } }
\* an absent optional field is <<>>, a present one a one-element sequence
NewTree == [nodeType |-> <<>>, children |-> <<>>, leaf |-> <<>>]

\* const nt = { name: '', sub: '', sup: '' }
NewNodeType == [name |-> <<>>, sub |-> <<>>, sup |-> <<>>]

\* data = '∅': the one-character string U+2205
NullMarker == <<"EMPTY SET">>

\* a call frame: the function, where it is, and its locals
Frame(fn, pc) ==
  [fn |-> fn, pc |-> pc, root |-> 0, head |-> 0, newHead |-> 0,
   nt |-> NewNodeType, nodes |-> <<>>, data |-> <<>>, collapsed |-> FALSE]

Top(s) == s.stack[Len(s.stack)]
SetTop(s, f) == [s EXCEPT !.stack[Len(s.stack)] = f]
Goto(s, pc) == [s EXCEPT !.stack[Len(s.stack)].pc = pc]

\* a call: the caller resumes at retpc
Call(s, retpc, f) == [s EXCEPT !.stack = Append(Goto(s, retpc).stack, f)]

\* return v; leaving parse itself ends the run
Return(s, v) ==
  [s EXCEPT !.stack = SubSeq(@, 1, Len(@) - 1),
            !.ret = <<Top(s).fn, v>>,
            !.status = IF Len(s.stack) = 1 THEN "returned" ELSE @]

----------------------------------------------------------------------------
(* parse: the statements, one operator per program point (source line) *)

\* 56-59: const toks = tokenize(input); let tok_peek = toks.next().value; node()
parse_L56(s) ==
  Call(toks_next([s EXCEPT !.gen = NewGenerator, !.status = "running",
                           !.stack = <<Frame("parse", "parse:56")>>]),
       "parse:59", Frame("node", "node:87"))

\* 59-60: const root = <returned>; accept_ws()
parse_L59(s) ==
  accept_ws(SetTop(s, [Top(s) EXCEPT !.root = s.ret[2], !.pc = "parse:61"]),
            "WHITESPACE").st

\* 61-62: expect('EOF'); return root
parse_L61NoEOF(s) == Return(s, Top(s).root)
\* return root, unless the expect before it threw
ReturnRoot(s, a) ==
  IF a.st.status = "thrown" THEN a.st ELSE Return(a.st, Top(s).root)
parse_L61(s) == ReturnRoot(s, expect(s, "EOF"))

\* 87-90: const root = Tree(); let head = root; expect('[')
node_L87AcceptOpen(s) ==
  accept([s EXCEPT !.heap = Append(@, NewTree),
                   !.stack[Len(s.stack)].root = Len(s.heap) + 1,
                   !.stack[Len(s.stack)].head = Len(s.heap) + 1,
                   !.stack[Len(s.stack)].pc = "node:91"], "[").st
node_L87(s) ==
  expect([s EXCEPT !.heap = Append(@, NewTree),
                   !.stack[Len(s.stack)].root = Len(s.heap) + 1,
                   !.stack[Len(s.stack)].head = Len(s.heap) + 1,
                   !.stack[Len(s.stack)].pc = "node:91"], "[").st

\* 91: accept_ws()
node_L91NoSkip(s) == Goto(s, "node:92")
node_L91(s) == accept_ws(Goto(s, "node:92"), "WHITESPACE").st

\* 92-93: if (tok_peek.kind == 'WORD') ... nodeType()
node_L92(s) ==
  IF s.tok_peek = NoToken THEN Throw(s, TypeError)
  ELSE IF s.tok_peek.kind = "WORD"
    THEN Call(s, "node:93", Frame("nodeType", "nt:124"))
  ELSE Goto(s, "node:117")

\* 93: root.nodeType = <returned>
node_L93(s) ==
  Goto([s EXCEPT !.heap[Top(s).root].nodeType = <<s.ret[2]>>], "node:94")

\* 94-97: while (accept('.')) { const newHead = Tree();
\*          head.children.push(newHead); ... nodeType()
NewLink(s) ==
  [s EXCEPT !.heap = Append([@ EXCEPT ![Top(s).head].children =
                                        Append(@, Len(s.heap) + 1)], NewTree),
            !.stack[Len(s.stack)].newHead = Len(s.heap) + 1]
NewLinkDetached(s) ==
  [s EXCEPT !.heap = Append(@, NewTree),
            !.stack[Len(s.stack)].newHead = Len(s.heap) + 1]
AfterDotDetached(a) ==
  IF a.st.status = "thrown" THEN a.st
  ELSE IF a.ok
    THEN Call(NewLinkDetached(a.st), "node:97", Frame("nodeType", "nt:124"))
  ELSE Goto(a.st, "node:102")
AfterDot(a) ==
  IF a.st.status = "thrown" THEN a.st
  ELSE IF a.ok THEN Call(NewLink(a.st), "node:97", Frame("nodeType", "nt:124"))
  ELSE Goto(a.st, "node:102")
node_L94(s) == AfterDot(accept(s, "."))

\* 97-98: newHead.nodeType = <returned>; head = newHead
node_L97TypeOnRoot(s) ==
  [s EXCEPT !.heap[Top(s).root].nodeType = <<s.ret[2]>>,
            !.stack[Len(s.stack)].head = Top(s).newHead,
            !.stack[Len(s.stack)].pc = "node:94"]
node_L97(s) ==
  [s EXCEPT !.heap[Top(s).newHead].nodeType = <<s.ret[2]>>,
            !.stack[Len(s.stack)].head = Top(s).newHead,
            !.stack[Len(s.stack)].pc = "node:94"]

\* 102-114: switch (tok_peek.kind) case '[': nodeList(); case '*' '.' '/'
\*          '_' '^' 'WORD': nodeData()
node_L102NoScriptCase(s) ==
  IF s.tok_peek = NoToken THEN Throw(s, TypeError)
  ELSE IF s.tok_peek.kind = "["
    THEN Call(s, "node:104", Frame("nodeList", "nl:144"))
  ELSE IF s.tok_peek.kind \in {"*", ".", "/", "WORD"}
    THEN Call(s, "node:112", Frame("nodeData", "nd:157"))
  ELSE Goto(s, "node:117")
node_L102(s) ==
  IF s.tok_peek = NoToken THEN Throw(s, TypeError)
  ELSE IF s.tok_peek.kind = "["
    THEN Call(s, "node:104", Frame("nodeList", "nl:144"))
  ELSE IF s.tok_peek.kind \in {"*", ".", "/", "_", "^", "WORD"}
    THEN Call(s, "node:112", Frame("nodeData", "nd:157"))
  ELSE Goto(s, "node:117")

\* 104: head.children = <returned>
node_L104FallThrough(s) ==
  Call([s EXCEPT !.heap[Top(s).head].children = s.ret[2]], "node:112",
       Frame("nodeData", "nd:157"))
node_L104(s) ==
  Goto([s EXCEPT !.heap[Top(s).head].children = s.ret[2]], "node:117")

\* 112: head.leaf = <returned>
node_L112LeafOnRoot(s) ==
  Goto([s EXCEPT !.heap[Top(s).root].leaf = <<s.ret[2]>>], "node:117")
node_L112(s) ==
  Goto([s EXCEPT !.heap[Top(s).head].leaf = <<s.ret[2]>>], "node:117")

\* 117-119: expect(']'); return root
node_L117(s) == ReturnRoot(s, expect(s, "]"))

\* an expect('WORD') of nodeType: on success, store the value and go on
WordInto(a, field, next) ==
  IF a.st.status = "thrown" THEN a.st
  ELSE IF next = "return"
    THEN Return(a.st, [Top(a.st).nt EXCEPT ![field] = a.tok.value])
  ELSE SetTop(a.st, [Top(a.st) EXCEPT !.nt[field] = a.tok.value, !.pc = next])
ExpectWordInto(s, field, next) == WordInto(expect(s, "WORD"), field, next)

\* an accept(kind) of nodeType: go to `yes` on a match, else to `no`
Branch(st, to) == IF to = "return" THEN Return(st, Top(st).nt) ELSE Goto(st, to)
Accepted(a, yes, no) ==
  IF a.st.status = "thrown" THEN a.st
  ELSE Branch(a.st, IF a.ok THEN yes ELSE no)
AcceptThen(s, kind, yes, no) == Accepted(accept(s, kind), yes, no)

\* 123-124: const nt = {name: '', sub: '', sup: ''}; nt.name = expect('WORD').value
nt_L124(s) ==
  ExpectWordInto(SetTop(s, [Top(s) EXCEPT !.nt = NewNodeType]), "name", "nt:126")

\* 126: if (accept('_'))
nt_L126(s) == AcceptThen(s, "_", "nt:127", "nt:131")

\* 127: nt.sub = expect('WORD').value
nt_L127(s) == ExpectWordInto(s, "sub", "nt:128")

\* 128: if (accept('^')); else 138: return nt
nt_L128(s) == AcceptThen(s, "^", "nt:129", "return")

\* 129: nt.sup = expect('WORD').value; 138: return nt
nt_L129IntoSub(s) == ExpectWordInto(s, "sub", "return")
nt_L129(s) == ExpectWordInto(s, "sup", "return")

\* 131: else if (accept('^')); else 138: return nt
nt_L131(s) == AcceptThen(s, "^", "nt:132", "return")

\* 132: nt.sup = expect('WORD').value
nt_L132(s) == ExpectWordInto(s, "sup", "nt:133")

\* 133: if (accept('_')); else 138: return nt
nt_L133(s) == AcceptThen(s, "_", "nt:134", "return")

\* 134: nt.sub = expect('WORD').value; 138: return nt
nt_L134IntoSup(s) == ExpectWordInto(s, "sup", "return")
nt_L134(s) == ExpectWordInto(s, "sub", "return")

\* 142-144: const nodes = []; accept_ws()
nl_L144(s) ==
  accept_ws(SetTop(s, [Top(s) EXCEPT !.nodes = <<>>, !.pc = "nl:145"]),
            "WHITESPACE").st

\* 145-146: while (tok_peek.kind === '[') ... node(); else 150: return nodes
nl_L145(s) ==
  IF s.tok_peek = NoToken THEN Throw(s, TypeError)
  ELSE IF s.tok_peek.kind = "["
    THEN Call(s, "nl:146", Frame("node", "node:87"))
  ELSE Return(s, Top(s).nodes)

\* 146-147: nodes.push(<returned>); accept_ws()
nl_L146NoSkip(s) ==
  SetTop(s, [Top(s) EXCEPT !.nodes = Append(@, s.ret[2]), !.pc = "nl:145"])
nl_L146Unshift(s) ==
  accept_ws(SetTop(s, [Top(s) EXCEPT !.nodes = <<s.ret[2]>> \o @, !.pc = "nl:145"]),
            "WHITESPACE").st
nl_L146(s) ==
  accept_ws(SetTop(s, [Top(s) EXCEPT !.nodes = Append(@, s.ret[2]), !.pc = "nl:145"]),
            "WHITESPACE").st

\* return { data: data, isCollapsed: collapsed }
Leaf(f) == [data |-> f.data, isCollapsed |-> f.collapsed]

\* 154-158: let data = ''; let collapsed = false; if (accept('/')) data = '∅'
AfterSlashThenCapture(a) ==
  IF a.st.status = "thrown" THEN a.st
  ELSE IF a.ok THEN SetTop(a.st, [Top(a.st) EXCEPT !.data = NullMarker, !.pc = "nd:164"])
  ELSE Goto(a.st, "nd:160")
AfterSlash(a) ==
  IF a.st.status = "thrown" THEN a.st
  ELSE IF a.ok THEN Return(a.st, Leaf([Top(a.st) EXCEPT !.data = NullMarker]))
  ELSE Goto(a.st, "nd:160")
nd_L157(s) ==
  AfterSlash(accept(SetTop(s, [Top(s) EXCEPT !.data = <<>>, !.collapsed = FALSE]),
                    "/"))

\* 160-162: if (accept('*')) collapsed = true
AfterStarNeverCollapsed(a) ==
  IF a.st.status = "thrown" THEN a.st ELSE Goto(a.st, "nd:163")
AfterStar(a) ==
  IF a.st.status = "thrown" THEN a.st
  ELSE SetTop(a.st, [Top(a.st) EXCEPT !.collapsed = (a.ok \/ @), !.pc = "nd:163"])
nd_L160NeverCollapsed(s) == AfterStarNeverCollapsed(accept(s, "*"))
nd_L160(s) == AfterStar(accept(s, "*"))

\* 163: data += expect('WORD').value
SeedData(a) ==
  IF a.st.status = "thrown" THEN a.st
  ELSE SetTop(a.st, [Top(a.st) EXCEPT !.data = @ \o a.tok.value, !.pc = "nd:164"])
nd_L163AnyToken(s) ==
  IF s.tok_peek = NoToken THEN Throw(s, TypeError)
  ELSE toks_next(SetTop(s, [Top(s) EXCEPT
                             !.data = @ \o (IF s.tok_peek.hasValue
                                              THEN s.tok_peek.value
                                              ELSE <<s.tok_peek.kind>>),
                             !.pc = "nd:164"]))
nd_L163(s) == SeedData(expect(s, "WORD"))

\* 164-171: while (tok_peek.kind != '[' && != ']' && != 'EOF') {
\*   data += tok_peek.value ? tok_peek.value : tok_peek.kind;
\*   tok_peek = toks.next().value }; 174: return {data, isCollapsed}
CapturedTextKind(t) == <<t.kind>>
CapturedText(t) == IF t.hasValue /\ t.value # <<>> THEN t.value ELSE <<t.kind>>
nd_L164SkippingWhitespace(s) ==
  IF s.tok_peek = NoToken THEN Throw(s, TypeError)
  ELSE IF s.tok_peek.kind = "WHITESPACE" THEN toks_next(s)
  ELSE IF s.tok_peek.kind \notin {"[", "]", "EOF"}
    THEN toks_next(SetTop(s, [Top(s) EXCEPT !.data = @ \o CapturedText(s.tok_peek)]))
  ELSE Return(s, Leaf(Top(s)))
nd_L164DoubleFetch(s) ==
  IF s.tok_peek = NoToken THEN Throw(s, TypeError)
  ELSE IF s.tok_peek.kind \notin {"[", "]", "EOF"}
    THEN toks_next(toks_next(SetTop(s, [Top(s) EXCEPT
                                          !.data = @ \o CapturedText(s.tok_peek)])))
  ELSE Return(s, Leaf(Top(s)))
nd_L164ThroughEOF(s) ==
  IF s.tok_peek = NoToken THEN Throw(s, TypeError)
  ELSE IF s.tok_peek.kind \notin {"[", "]"}
    THEN toks_next(SetTop(s, [Top(s) EXCEPT !.data = @ \o CapturedText(s.tok_peek)]))
  ELSE Return(s, Leaf(Top(s)))
nd_L164NoAdvance(s) ==
  IF s.tok_peek = NoToken THEN Throw(s, TypeError)
  ELSE IF s.tok_peek.kind \notin {"[", "]", "EOF"}
    THEN SetTop(s, [Top(s) EXCEPT !.data = @ \o CapturedText(s.tok_peek)])
  ELSE Return(s, Leaf(Top(s)))
nd_L164(s) ==
  IF s.tok_peek = NoToken THEN Throw(s, TypeError)
  ELSE IF s.tok_peek.kind \notin {"[", "]", "EOF"}
    THEN toks_next(SetTop(s, [Top(s) EXCEPT !.data = @ \o CapturedText(s.tok_peek)]))
  ELSE Return(s, Leaf(Top(s)))

\* the statement at the program point the run is at
Step(s) ==
  LET pc == IF s.status = "idle" THEN "parse:56" ELSE Top(s).pc
  IN  CASE pc = "parse:56" -> parse_L56(s)
        [] pc = "parse:59" -> parse_L59(s)
        [] pc = "parse:61" -> parse_L61(s)
        [] pc = "node:87" -> node_L87(s)
        [] pc = "node:91" -> node_L91(s)
        [] pc = "node:92" -> node_L92(s)
        [] pc = "node:93" -> node_L93(s)
        [] pc = "node:94" -> node_L94(s)
        [] pc = "node:97" -> node_L97(s)
        [] pc = "node:102" -> node_L102(s)
        [] pc = "node:104" -> node_L104(s)
        [] pc = "node:112" -> node_L112(s)
        [] pc = "node:117" -> node_L117(s)
        [] pc = "nt:124" -> nt_L124(s)
        [] pc = "nt:126" -> nt_L126(s)
        [] pc = "nt:127" -> nt_L127(s)
        [] pc = "nt:128" -> nt_L128(s)
        [] pc = "nt:129" -> nt_L129(s)
        [] pc = "nt:131" -> nt_L131(s)
        [] pc = "nt:132" -> nt_L132(s)
        [] pc = "nt:133" -> nt_L133(s)
        [] pc = "nt:134" -> nt_L134(s)
        [] pc = "nl:144" -> nl_L144(s)
        [] pc = "nl:145" -> nl_L145(s)
        [] pc = "nl:146" -> nl_L146(s)
        [] pc = "nd:157" -> nd_L157(s)
        [] pc = "nd:160" -> nd_L160(s)
        [] pc = "nd:163" -> nd_L163(s)
        [] pc = "nd:164" -> nd_L164(s)

\* parse has returned or thrown
Finished(s) == s.status \in {"returned", "thrown"}

\* the whole call: the statements in order until parse returns or throws
RECURSIVE Run(_)
Run(s) == IF Finished(s) THEN s ELSE Run(Step(s))

\* the state in which parse(str) is called
CallState(str) ==
  [input |-> str, gen |-> NewGenerator, delivered |-> <<>>, tok_peek |-> NoToken,
   stack |-> <<>>, heap |-> <<>>, ret |-> NoReturn, status |-> "idle", thrown |-> ""]

\* parse(str), run to its end
parse(str) == Run(CallState(str))

\* the Tree object `id` of the heap as a value: nodeType, children, leaf
RECURSIVE TreeAt(_, _)
TreeAt(h, id) ==
  [nodeType |-> h[id].nodeType,
   children |-> [i \in 1..Len(h[id].children) |-> TreeAt(h, h[id].children[i])],
   leaf |-> h[id].leaf]

\* the Tree a finished state returned
TreeOf(s) == TreeAt(s.heap, s.ret[2])

----------------------------------------------------------------------------
(* The inputs of the parser specification *)

\* the characters of the enumerated inputs
ParseAlphabet == symbols \cup {" "} \cup {"X"}

\* test/parser.test.ts: "accepts the string '%s'"
AcceptedByTests ==
  {
    (* [] *)
    <<"[", "]">>,
    (* [X] *)
    <<"[", "X", "]">>,
    (* [X.X] *)
    <<"[", "X", ".", "X", "]">>,
    (* [X_1^2] *)
    <<"[", "X", "_", "1", "^", "2", "]">>,
    (* [X^2.X_1] *)
    <<"[", "X", "^", "2", ".", "X", "_", "1", "]">>,
    (* [X data] *)
    <<"[", "X", " ", "d", "a", "t", "a", "]">>,
    (*   [  X  data  ]    *)
    <<" ", " ", "[", " ", " ", "X", " ", " ", "d", "a", "t", "a", " ", " ", "]", " ", " ", " ">>,
    (* [X [X data] [Y data]] *)
    <<"[", "X", " ", "[", "X", " ", "d", "a", "t", "a", "]", " ", "[", "Y", " ", "d", "a", "t", "a", "]", "]">>,
    (* [X * this is data.] *)
    <<"[", "X", " ", "*", " ", "t", "h", "i", "s", " ", "i", "s", " ", "d", "a", "t", "a", ".", "]">>,
    (* [XX.YY.ZZ* more data] *)
    <<"[", "X", "X", ".", "Y", "Y", ".", "Z", "Z", "*", " ", "m", "o", "r", "e", " ", "d", "a", "t", "a", "]">>,
    (* [XX /] *)
    <<"[", "X", "X", " ", "/", "]">>,
    (* [X [XX [] [Y [Z data] ] ] [] ] *)
    <<"[", "X", " ", "[", "X", "X", " ", "[", "]", " ", "[", "Y", " ", "[", "Z", " ", "d", "a", "t", "a", "]", " ", "]", " ", "]", " ", "[", "]", " ", "]">>,
    (* [X this_data ^ has./punct* ] *)
    <<"[", "X", " ", "t", "h", "i", "s", "_", "d", "a", "t", "a", " ", "^", " ", "h", "a", "s", ".", "/", "p", "u", "n", "c", "t", "*", " ", "]">>,
    (* [X*X.X looks incorect, but is valid] *)
    <<"[", "X", "*", "X", ".", "X", " ", "l", "o", "o", "k", "s", " ", "i", "n", "c", "o", "r", "e", "c", "t", ",", " ", "b", "u", "t", " ", "i", "s", " ", "v", "a", "l", "i", "d", "]">>
  }

\* the newer test file: "rejects the string '%s'"
RejectedByTests ==
  {
    (* [ *)
    <<"[">>,
    (* [[] *)
    <<"[", "[", "]">>,
    (* []] *)
    <<"[", "]", "]">>,
    (* X[] *)
    <<"X", "[", "]">>,
    (* [X.] *)
    <<"[", "X", ".", "]">>,
    (* [X X []] *)
    <<"[", "X", " ", "X", " ", "[", "]", "]">>,
    (* [X [] X] *)
    <<"[", "X", " ", "[", "]", " ", "X", "]">>,
    (* [X /this_data ^starts with.punct* ] *)
    <<"[", "X", " ", "/", "t", "h", "i", "s", "_", "d", "a", "t", "a", " ", "^", "s", "t", "a", "r", "t", "s", " ", "w", "i", "t", "h", ".", "p", "u", "n", "c", "t", "*", " ", "]">>,
    (* [/ data] *)
    <<"[", "/", " ", "d", "a", "t", "a", "]">>,
    (* [X *] *)
    <<"[", "X", " ", "*", "]">>,
    (* [X* /] *)
    <<"[", "X", "*", " ", "/", "]">>
  }

\* the newer test file: 'correctly builds Tree from "%s"', the inputs not listed above
TreeTestInputs ==
  {
    (* [X^2_1] *)
    <<"[", "X", "^", "2", "_", "1", "]">>,
    (* [X [] []] *)
    <<"[", "X", " ", "[", "]", " ", "[", "]", "]">>,
    (* [X [Y] [Z]] *)
    <<"[", "X", " ", "[", "Y", "]", " ", "[", "Z", "]", "]">>,
    (* [X* data] *)
    <<"[", "X", "*", " ", "d", "a", "t", "a", "]">>,
    (* [X       data] *)
    <<"[", "X", " ", " ", " ", " ", " ", " ", " ", "d", "a", "t", "a", "]">>,
    (* [X data    data] *)
    <<"[", "X", " ", "d", "a", "t", "a", " ", " ", " ", " ", "d", "a", "t", "a", "]">>,
    (* [X data  ] *)
    <<"[", "X", " ", "d", "a", "t", "a", " ", " ", "]">>,
    (* [X /] *)
    <<"[", "X", " ", "/", "]">>,
    (* [X*X.X data] *)
    <<"[", "X", "*", "X", ".", "X", " ", "d", "a", "t", "a", "]">>
  }

\* further inputs: stars, repeated scripts, missing brackets, two roots, a
\* dot in a type chain and a dot in data
FurtherInputs ==
  {
    (* [X*X.X anything] *)
    <<"[", "X", "*", "X", ".", "X", " ", "a", "n", "y", "t", "h", "i", "n", "g", "]">>,
    (* [X a*] *)
    <<"[", "X", " ", "a", "*", "]">>,
    (* [X *  d] *)
    <<"[", "X", " ", "*", " ", " ", "d", "]">>,
    (* [X.Y*d*] *)
    <<"[", "X", ".", "Y", "*", "d", "*", "]">>,
    (* [X [Y* a] [Z b*c]] *)
    <<"[", "X", " ", "[", "Y", "*", " ", "a", "]", " ", "[", "Z", " ", "b", "*", "c", "]", "]">>,
    (* [X.Y * a b ] *)
    <<"[", "X", ".", "Y", " ", "*", " ", "a", " ", "b", " ", "]">>,
    (* [X_1_2] *)
    <<"[", "X", "_", "1", "_", "2", "]">>,
    (* [X^1^2] *)
    <<"[", "X", "^", "1", "^", "2", "]">>,
    (*  *)
    <<>>,
    (* [X data *)
    <<"[", "X", " ", "d", "a", "t", "a">>,
    (* [] [] *)
    <<"[", "]", " ", "[", "]">>,
    (* [X	/
] *)
    <<"[", "X", "\t", "/", "\n", "]">>,
    (* [X * [Y]] *)
    <<"[", "X", " ", "*", " ", "[", "Y", "]", "]">>,
    (* [A.B [C d.e] [F]] *)
    <<"[", "A", ".", "B", " ", "[", "C", " ", "d", ".", "e", "]", " ", "[", "F", "]", "]">>
  }

\* the type texts, and the texts after the type chain, of the chain inputs
ChainTypes == {<<"X">>, <<"Y", "_", "1">>, <<"Z", "^", "2", "_", "1">>}
ChainRests ==
  { <<>>,
    (* " d" *)
    <<" ", "d">>,
    (* " [A] [B.C e]" *)
    <<" ", "[", "A", "]", " ", "[", "B", ".", "C", " ", "e", "]">>,
    (* " /" *)
    <<" ", "/">>,
    (* "* d e " *)
    <<"*", " ", "d", " ", "e", " ">>,
    (* "[ ]" *)
    <<"[", " ", "]">> }

\* [T1.T2 ... .Tn REST]
RECURSIVE JoinWith(_, _)
JoinWith(ts, sep) ==
  IF Len(ts) = 1 THEN ts[1] ELSE ts[1] \o sep \o JoinWith(Tail(ts), sep)
ChainText(ts, rest) == <<"[">> \o JoinWith(ts, <<".">>) \o rest \o <<"]">>

\* [T1 [T2 ... [Tn REST]]]
RECURSIVE NestedText(_, _)
NestedText(ts, rest) ==
  IF Len(ts) = 1 THEN <<"[">> \o ts[1] \o rest \o <<"]">>
  ELSE <<"[">> \o ts[1] \o <<" ">> \o NestedText(Tail(ts), rest) \o <<"]">>

ChainTypeSeqs == UNION {[1..n -> ChainTypes] : n \in 2..3}
ChainInputs == {ChainText(ts, rest) : ts \in ChainTypeSeqs, rest \in ChainRests}

\* the words of the script inputs [N_S^P] and [N^P_S]
ScriptWords == {<<"X">>, <<"1">>, <<"N", "P">>}
SubSupText(n, s, p) == <<"[">> \o n \o <<"_">> \o s \o <<"^">> \o p \o <<"]">>
SupSubText(n, s, p) == <<"[">> \o n \o <<"^">> \o p \o <<"_">> \o s \o <<"]">>
ScriptInputs ==
  {SubSupText(n, s, p) : n \in ScriptWords, s \in ScriptWords, p \in ScriptWords}
    \cup {SupSubText(n, s, p) : n \in ScriptWords, s \in ScriptWords, p \in ScriptWords}

\* further inputs: null content, text after the root, nested lists
NullAndRootInputs ==
  {
    (* [X / [Y]] *)
    <<"[", "X", " ", "/", " ", "[", "Y", "]", "]">>,
    (* [X.Y / ] *)
    <<"[", "X", ".", "Y", " ", "/", " ", "]">>,
    (* [X [Y /] [Z /]] *)
    <<"[", "X", " ", "[", "Y", " ", "/", "]", " ", "[", "Z", " ", "/", "]", "]">>,
    (* [X / d] *)
    <<"[", "X", " ", "/", " ", "d", "]">>,
    (* [X /  *] *)
    <<"[", "X", " ", "/", " ", " ", "*", "]">>,
    (* [X_1 / *)
    <<"[", "X", "_", "1", " ", "/", " ">>,
    (* [X d] e *)
    <<"[", "X", " ", "d", "]", " ", "e">>,
    (* [X d]  ] *)
    <<"[", "X", " ", "d", "]", " ", " ", "]">>,
    (*  d [X] *)
    <<" ", "d", " ", "[", "X", "]">>,
    (* [A [B] [C [D] [E]] [F]] *)
    <<"[", "A", " ", "[", "B", "]", " ", "[", "C", " ", "[", "D", "]", " ", "[", "E", "]", "]",
      " ", "[", "F", "]", "]">>,
    (* [A.B [C d] [] [E.F [G]]] *)
    <<"[", "A", ".", "B", " ", "[", "C", " ", "d", "]", " ", "[", "]", " ",
      "[", "E", ".", "F", " ", "[", "G", "]", "]", "]">>,
    (* [A [B][C] [D *)
    <<"[", "A", " ", "[", "B", "]", "[", "C", "]", " ", "[", "D">>
  }

ParseInputs ==
  StringsUpTo(ParseAlphabet, MaxParseLen) \cup AcceptedByTests \cup RejectedByTests
    \cup TreeTestInputs \cup FurtherInputs \cup ChainInputs \cup ScriptInputs
    \cup NullAndRootInputs

----------------------------------------------------------------------------
(* parse as a state machine: one action per program point *)

\* before parse(input) is called
Init ==
  /\ input \in ParseInputs
  /\ gen = NewGenerator
  /\ delivered = <<>>
  /\ ParserIdle
  /\ other = NoCall

Apply(s) ==
  /\ input' = s.input
  /\ gen' = s.gen
  /\ delivered' = s.delivered
  /\ tok_peek' = s.tok_peek
  /\ stack' = s.stack
  /\ heap' = s.heap
  /\ ret' = s.ret
  /\ status' = s.status
  /\ thrown' = s.thrown
  /\ other' = other

\* parse is running and its innermost frame is at pc
AtPc(pc) == status = "running" /\ stack[Len(stack)].pc = pc

Parse_L56 == status = "idle" /\ \E s \in {parse_L56(State)} : Apply(s)

Parse_L59 == AtPc("parse:59") /\ \E s \in {parse_L59(State)} : Apply(s)
Parse_L61 == AtPc("parse:61") /\ \E s \in {parse_L61(State)} : Apply(s)
Node_L87 == AtPc("node:87") /\ \E s \in {node_L87(State)} : Apply(s)
Node_L91 == AtPc("node:91") /\ \E s \in {node_L91(State)} : Apply(s)
Node_L92 == AtPc("node:92") /\ \E s \in {node_L92(State)} : Apply(s)
Node_L93 == AtPc("node:93") /\ \E s \in {node_L93(State)} : Apply(s)
Node_L94 == AtPc("node:94") /\ \E s \in {node_L94(State)} : Apply(s)
Node_L97 == AtPc("node:97") /\ \E s \in {node_L97(State)} : Apply(s)
Node_L102 == AtPc("node:102") /\ \E s \in {node_L102(State)} : Apply(s)
Node_L104 == AtPc("node:104") /\ \E s \in {node_L104(State)} : Apply(s)
Node_L112 == AtPc("node:112") /\ \E s \in {node_L112(State)} : Apply(s)
Node_L117 == AtPc("node:117") /\ \E s \in {node_L117(State)} : Apply(s)
Nt_L124 == AtPc("nt:124") /\ \E s \in {nt_L124(State)} : Apply(s)
Nt_L126 == AtPc("nt:126") /\ \E s \in {nt_L126(State)} : Apply(s)
Nt_L127 == AtPc("nt:127") /\ \E s \in {nt_L127(State)} : Apply(s)
Nt_L128 == AtPc("nt:128") /\ \E s \in {nt_L128(State)} : Apply(s)
Nt_L129 == AtPc("nt:129") /\ \E s \in {nt_L129(State)} : Apply(s)
Nt_L131 == AtPc("nt:131") /\ \E s \in {nt_L131(State)} : Apply(s)
Nt_L132 == AtPc("nt:132") /\ \E s \in {nt_L132(State)} : Apply(s)
Nt_L133 == AtPc("nt:133") /\ \E s \in {nt_L133(State)} : Apply(s)
Nt_L134 == AtPc("nt:134") /\ \E s \in {nt_L134(State)} : Apply(s)
Nl_L144 == AtPc("nl:144") /\ \E s \in {nl_L144(State)} : Apply(s)
Nl_L145 == AtPc("nl:145") /\ \E s \in {nl_L145(State)} : Apply(s)
Nl_L146 == AtPc("nl:146") /\ \E s \in {nl_L146(State)} : Apply(s)
Nd_L157 == AtPc("nd:157") /\ \E s \in {nd_L157(State)} : Apply(s)
Nd_L160 == AtPc("nd:160") /\ \E s \in {nd_L160(State)} : Apply(s)
Nd_L163 == AtPc("nd:163") /\ \E s \in {nd_L163(State)} : Apply(s)
Nd_L164 == AtPc("nd:164") /\ \E s \in {nd_L164(State)} : Apply(s)

Next ==
  \/ Parse_L56
  \/ Parse_L59
  \/ Parse_L61
  \/ Node_L87
  \/ Node_L91
  \/ Node_L92
  \/ Node_L93
  \/ Node_L94
  \/ Node_L97
  \/ Node_L102
  \/ Node_L104
  \/ Node_L112
  \/ Node_L117
  \/ Nt_L124
  \/ Nt_L126
  \/ Nt_L127
  \/ Nt_L128
  \/ Nt_L129
  \/ Nt_L131
  \/ Nt_L132
  \/ Nt_L133
  \/ Nt_L134
  \/ Nl_L144
  \/ Nl_L145
  \/ Nl_L146
  \/ Nd_L157
  \/ Nd_L160
  \/ Nd_L163
  \/ Nd_L164

Spec == Init /\ [][Next]_vars

\* the inputs of the runs followed to their end: every string of up to
\* MaxFairLen characters and the longer inputs of the tests
FairInputs ==
  StringsUpTo(ParseAlphabet, MaxFairLen) \cup AcceptedByTests \cup RejectedByTests
    \cup TreeTestInputs \cup FurtherInputs \cup ChainInputs \cup ScriptInputs
    \cup NullAndRootInputs

FairInit == Init /\ input \in FairInputs

\* parse is synchronous: once called it runs on, statement after statement,
\* until it returns or throws
FairSpec == FairInit /\ [][Next]_vars /\ WF_vars(Next)

----------------------------------------------------------------------------
(* Two calls side by side: each a parse or a bare tokenizer sequence,      *)
(* advanced in any interleaving                                            *)

\* what a call reads and writes: toks, tok_peek and the locals of parse are
\* declared inside parse, cur and the two regular expressions (without the g
\* flag, so without lastIndex state) inside tokenize; nothing is declared at
\* module level, so a call sees its own variables only
ClosureSharedLookahead(own, foreign) ==
  IF foreign.status = "running" THEN [own EXCEPT !.tok_peek = foreign.tok_peek] ELSE own
Closure(own, foreign) == own

\* the inputs of the two calls
PairInputs ==
  {
    (* [X.Y d] *)
    <<"[", "X", ".", "Y", " ", "d", "]">>,
    (* [A [B /] [C* e]] *)
    <<"[", "A", " ", "[", "B", " ", "/", "]", " ", "[", "C", "*", " ", "e", "]", "]">>,
    (* [X_1^2  *)
    <<"[", "X", "_", "1", "^", "2", " ">>,
    (*  [] *)
    <<" ", "[", "]">>,
    (* [X d[ *)
    <<"[", "X", " ", "d", "[">>,
    (* a b *)
    <<"a", " ", "b">>
  }

PairInit ==
  /\ input \in PairInputs
  /\ gen = NewGenerator
  /\ delivered = <<>>
  /\ ParserIdle
  /\ other \in {[NoCall EXCEPT !.input = str] : str \in PairInputs}

\* the call has not begun, or is a parse under way
CanParse(c) == (c.status = "idle" /\ c.delivered = <<>>) \/ c.status = "running"

\* the call is a bare tokenizer sequence, or may become one
CanTokenize(c) == c.status = "idle" /\ DoneCount(c.delivered) <= MaxExtraNext

\* toks.next() of a bare tokenizer sequence
TokenizerNext(c, r) ==
  [c EXCEPT !.gen = r.gen, !.delivered = Append(@, [value |-> r.value, done |-> r.done])]

\* the next statement of the first call's parse
FirstParseStep ==
  /\ CanParse(State)
  /\ \E s \in {Step(Closure(State, other))} : Apply(s)

\* the next statement of the second call's parse
SecondParseStep ==
  /\ CanParse(other)
  /\ other' = Step(Closure(other, State))
  /\ UNCHANGED callVars

\* toks.next() on the first call's generator
FirstTokenizerNext ==
  /\ CanTokenize(State)
  /\ \E s \in {Closure(State, other)} :
       \E c \in {TokenizerNext(s, GenNext(s.input, s.gen))} : Apply(c)

\* toks.next() on the second call's generator
SecondTokenizerNext ==
  /\ CanTokenize(other)
  /\ \E s \in {Closure(other, State)} :
       other' = TokenizerNext(s, GenNext(s.input, s.gen))
  /\ UNCHANGED callVars

PairNext ==
  \/ FirstParseStep
  \/ SecondParseStep
  \/ FirstTokenizerNext
  \/ SecondTokenizerNext

PairSpec == PairInit /\ [][PairNext]_vars

----------------------------------------------------------------------------
(* Reading a run of the tokenizer *)

TokenKinds == symbols \cup {"WORD", "WHITESPACE", "EOF"}

\* the literal text a token stands for
TokenText(t) ==
  IF t.kind \in symbols THEN <<t.kind>>
  ELSE IF t.kind \in {"WORD", "WHITESPACE"} THEN t.value
  ELSE <<>>

\* the literal text of the first n delivered tokens, concatenated in order
RECURSIVE TextOf(_, _)
TextOf(d, n) == IF n = 0 THEN <<>> ELSE TextOf(d, n - 1) \o TokenText(d[n].value)

\* the character classes a token can be a run of
InClass(kind, ch) ==
  IF kind = "WHITESPACE" THEN ch \in whitespace
  ELSE ch \notin symbols /\ ch \notin whitespace

CharClass(ch) ==
  IF ch \in symbols THEN "symbol"
  ELSE IF ch \in whitespace THEN "WHITESPACE" ELSE "WORD"

\* position i (from 1) is where a token of the string starts: a symbol, the
\* character after a symbol, or a change between whitespace and word
TokenStartsAt(s, i) ==
  \/ i = 1
  \/ s[i] \in symbols
  \/ s[i - 1] \in symbols
  \/ CharClass(s[i]) # CharClass(s[i - 1])

\* n: the number of non-EOF tokens the string splits into
NumTokens(s) == Cardinality({i \in 1..Len(s) : TokenStartsAt(s, i)})

\* the number of maximal runs of the class in the string
NumRuns(s, kind) ==
  Cardinality({i \in 1..Len(s) :
                 InClass(kind, s[i]) /\ (i = 1 \/ ~InClass(kind, s[i - 1]))})

IsSymbolChar(ch) == ch \in symbols
IsSymbolResult(r) == r.value.kind \in symbols
KindsOf(d) == [i \in 1..Len(d) |-> d[i].value.kind]
NonEOFCount(d) == Cardinality({i \in 1..Len(d) : d[i].value.kind \in TokenKinds \ {"EOF"}})

----------------------------------------------------------------------------
(* The grammar of Grammar.md, as a recogniser independent of parse *)

\* the end (from 1) of the token that starts at position i of the string
RunEnd(s, i) ==
  IF s[i] \in symbols THEN i
  ELSE CHOOSE j \in i..Len(s) :
         /\ \A x \in i..j : CharClass(s[x]) = CharClass(s[i])
         /\ (j = Len(s) \/ CharClass(s[j + 1]) # CharClass(s[i]))

\* "A word is any unicode string not containing a symbol used elsewhere in
\* the grammar or whitespace": the string as words, whitespace runs and symbols
RECURSIVE LexFrom(_, _)
LexFrom(s, i) ==
  IF i > Len(s) THEN <<>>
  ELSE <<[kind |-> IF s[i] \in symbols THEN s[i] ELSE CharClass(s[i]),
          text |-> SubSeq(s, i, RunEnd(s, i))]>> \o LexFrom(s, RunEnd(s, i) + 1)
Lex(s) == LexFrom(s, 1)
LexKinds(s) == [i \in 1..Len(Lex(s)) |-> Lex(s)[i].kind]

Is(k, p, kind) == p <= Len(k) /\ k[p] = kind

\* "Whitespace tokens are ignored"
SkipWs(k, p) == IF Is(k, p, "WHITESPACE") THEN p + 1 ELSE p

\* sub := "_" word.   sup := "^" word.     (the positions where one can end)
ScriptEnds(k, p, sym) ==
  IF Is(k, SkipWs(k, p), sym) /\ Is(k, SkipWs(k, SkipWs(k, p) + 1), "WORD")
    THEN {SkipWs(k, SkipWs(k, p) + 1) + 1}
    ELSE {}

\* Node_T := word [(sub [sup]) | (sup [sub])].
NodeTEnds(k, p) ==
  IF ~Is(k, SkipWs(k, p), "WORD") THEN {}
  ELSE LET w == SkipWs(k, p) + 1
           subs == ScriptEnds(k, w, "_")
           sups == ScriptEnds(k, w, "^")
       IN  {w} \cup subs \cup sups
             \cup UNION {ScriptEnds(k, q, "^") : q \in subs}
             \cup UNION {ScriptEnds(k, q, "_") : q \in sups}

\* Node_T {"." Node_T}
RECURSIVE ChainEnds(_, _)
ChainEnds(k, p) ==
  LET ends == NodeTEnds(k, p)
  IN  ends \cup UNION {ChainEnds(k, SkipWs(k, q) + 1) :
                         q \in {e \in ends : Is(k, SkipWs(k, e), ".")}}

\* NodeData := ( ["*"] word {word | DataSymbols} | Null ), whitespace preserved
DataKinds == {"WORD", "WHITESPACE", ".", "*", "/", "_", "^"}
DataTailEnds(k, w) == {q \in w..(Len(k) + 1) : \A j \in w..(q - 1) : k[j] \in DataKinds}
NodeDataEnds(k, p) ==
  LET p0 == SkipWs(k, p)
      p1 == SkipWs(k, p0 + 1)
  IN  (IF Is(k, p0, "/") THEN {p0 + 1} ELSE {})
        \cup (IF Is(k, p0, "WORD") THEN DataTailEnds(k, p0 + 1) ELSE {})
        \cup (IF Is(k, p0, "*") /\ Is(k, p1, "WORD") THEN DataTailEnds(k, p1 + 1) ELSE {})

\* Node := "[" "]" | "[" Node_T {"." Node_T} ( NodeList | NodeData ) "]".
\* NodeList := { Node }.
RECURSIVE NodeEnds(_, _)
RECURSIVE NodeListEnds(_, _)
NodeListEnds(k, p) ==
  {p} \cup UNION {NodeListEnds(k, q) : q \in NodeEnds(k, SkipWs(k, p))}
NodeEnds(k, p) ==
  IF ~Is(k, p, "[") THEN {}
  ELSE LET contents == UNION {NodeListEnds(k, c) \cup NodeDataEnds(k, c) :
                                c \in ChainEnds(k, p + 1)}
       IN  {SkipWs(k, q) + 1 : q \in {e \in contents \cup {p + 1} : Is(k, SkipWs(k, e), "]")}}

\* the string is one Node, with optional whitespace before and after it
Derivable(s) ==
  LET k == LexKinds(s)
  IN  \E q \in NodeEnds(k, SkipWs(k, 1)) : SkipWs(k, q) = Len(k) + 1

\* a sequence of token kinds is one Node, with optional whitespace around it
DerivableKinds(k) == \E q \in NodeEnds(k, SkipWs(k, 1)) : SkipWs(k, q) = Len(k) + 1

----------------------------------------------------------------------------
(* Reading an accepted input token by token, without parse *)

\* the role of a token given what came before it: <<role, what comes next>>
LexStep(mode, kind) ==
  IF mode = "data"
    THEN IF kind = "]" THEN <<"close", "list">>
         ELSE IF kind = "[" THEN <<"bad", "bad">>
         ELSE <<"data", "data">>
  ELSE IF kind = "WHITESPACE" THEN <<"skip", mode>>
  ELSE IF kind = "]" /\ mode \in {"list", "open", "chain", "null"} THEN <<"close", "list">>
  ELSE IF kind = "[" /\ mode \in {"list", "chain"} THEN <<"open", "open">>
  ELSE IF kind = "WORD" /\ mode \in {"open", "typeword"} THEN <<"name", "chain">>
  ELSE IF kind = "WORD" /\ mode = "scriptword" THEN <<"script", "chain">>
  ELSE IF kind = "WORD" /\ mode \in {"chain", "star"} THEN <<"seed", "data">>
  ELSE IF kind \in {"_", "^"} /\ mode = "chain" THEN <<"script", "scriptword">>
  ELSE IF kind = "." /\ mode = "chain" THEN <<"dot", "typeword">>
  ELSE IF kind = "*" /\ mode = "chain" THEN <<"star", "star">>
  ELSE IF kind = "/" /\ mode = "chain" THEN <<"null", "null">>
  ELSE <<"bad", "bad">>

\* the roles of the tokens, in order
RECURSIVE RolesFrom(_, _, _)
RolesFrom(k, i, mode) ==
  IF i > Len(k) THEN <<>>
  ELSE <<LexStep(mode, k[i])[1]>> \o RolesFrom(k, i + 1, LexStep(mode, k[i])[2])
Roles(s) == RolesFrom(LexKinds(s), 1, "list")

\* [T1.T2 REST] rewritten as [T1 [T2 REST]]: every dot that separates two
\* types becomes " [", and its node's "]" is doubled once per such dot
Repeat(ch, n) == [i \in 1..n |-> ch]
RECURSIVE NestFrom(_, _, _, _)
NestFrom(toks, roles, i, dots) ==
  IF i > Len(toks) THEN <<>>
  ELSE IF roles[i] = "open"
    THEN toks[i].text \o NestFrom(toks, roles, i + 1, Append(dots, 0))
  ELSE IF roles[i] = "dot" /\ dots # <<>>
    THEN <<" ", "[">>
           \o NestFrom(toks, roles, i + 1, [dots EXCEPT ![Len(dots)] = @ + 1])
  ELSE IF roles[i] = "close" /\ dots # <<>>
    THEN Repeat("]", dots[Len(dots)] + 1)
           \o NestFrom(toks, roles, i + 1, SubSeq(dots, 1, Len(dots) - 1))
  ELSE toks[i].text \o NestFrom(toks, roles, i + 1, dots)
Nested(s) == NestFrom(Lex(s), Roles(s), 1, <<>>)

\* the node types written in the string, in order: the word after `_` is the
\* subscript and the word after `^` the superscript
RECURSIVE TypesFrom(_, _, _, _, _)
TypesFrom(toks, roles, i, acc, sym) ==
  IF i > Len(toks) THEN acc
  ELSE IF roles[i] = "name"
    THEN TypesFrom(toks, roles, i + 1,
                   Append(acc, [name |-> toks[i].text, sub |-> <<>>, sup |-> <<>>]), "")
  ELSE IF roles[i] = "script" /\ toks[i].kind \in {"_", "^"}
    THEN TypesFrom(toks, roles, i + 1, acc, toks[i].kind)
  ELSE IF roles[i] = "script" /\ sym = "_" /\ acc # <<>>
    THEN TypesFrom(toks, roles, i + 1,
                   [acc EXCEPT ![Len(acc)].sub = toks[i].text], "")
  ELSE IF roles[i] = "script" /\ sym = "^" /\ acc # <<>>
    THEN TypesFrom(toks, roles, i + 1,
                   [acc EXCEPT ![Len(acc)].sup = toks[i].text], "")
  ELSE TypesFrom(toks, roles, i + 1, acc, sym)
WrittenTypes(s) == TypesFrom(Lex(s), Roles(s), 1, <<>>, "")

\* the leaves written in the string, in order: a leaf is collapsed when a `*`
\* is the first significant token of its data; its data starts at the seed
\* word and runs to the closing bracket; `/` alone is the null marker
RECURSIVE LeavesFrom(_, _, _, _, _)
LeavesFrom(toks, roles, i, acc, star) ==
  IF i > Len(toks) THEN acc
  ELSE IF roles[i] = "star" THEN LeavesFrom(toks, roles, i + 1, acc, TRUE)
  ELSE IF roles[i] = "seed"
    THEN LeavesFrom(toks, roles, i + 1,
                    Append(acc, [data |-> toks[i].text, isCollapsed |-> star]), FALSE)
  ELSE IF roles[i] = "data" /\ acc # <<>>
    THEN LeavesFrom(toks, roles, i + 1,
                    [acc EXCEPT ![Len(acc)].data = @ \o toks[i].text], FALSE)
  ELSE IF roles[i] = "null"
    THEN LeavesFrom(toks, roles, i + 1,
                    Append(acc, [data |-> NullMarker, isCollapsed |-> FALSE]), FALSE)
  ELSE LeavesFrom(toks, roles, i + 1, acc, star)
WrittenLeaves(s) == LeavesFrom(Lex(s), Roles(s), 1, <<>>, FALSE)

\* the node types / the leaves of a Tree, parents before children, children
\* from left to right
RECURSIVE TypesIn(_)
RECURSIVE TypesInAll(_, _)
TypesInAll(ts, n) == IF n = 0 THEN <<>> ELSE TypesInAll(ts, n - 1) \o TypesIn(ts[n])
TypesIn(t) == t.nodeType \o TypesInAll(t.children, Len(t.children))
RECURSIVE LeavesIn(_)
RECURSIVE LeavesInAll(_, _)
LeavesInAll(ts, n) == IF n = 0 THEN <<>> ELSE LeavesInAll(ts, n - 1) \o LeavesIn(ts[n])
LeavesIn(t) == t.leaf \o LeavesInAll(t.children, Len(t.children))

----------------------------------------------------------------------------
(* Claims about tokenize, checked under TokSpec / TokFairSpec *)

\* C1 (token coverage): at every moment the literal text of the tokens
\* delivered so far, concatenated in order, is a prefix of the input, and
\* once the generator has finished it is the whole input: no character is
\* skipped, dropped or emitted twice.
C1_TokenCoverage ==
  LET txt == TextOf(delivered, Len(delivered))
  IN  /\ Len(txt) <= Len(input)
      /\ txt = SubSeq(input, 1, Len(txt))
      /\ (gen.pc = "done" => txt = input)

\* a finished run over a full-length input holding a symbol, a whitespace run
\* and a word
C1_Witness ==
  /\ gen.pc = "done"
  /\ Len(input) = MaxTokLen
  /\ {"WORD", "WHITESPACE", "."} \subseteq {delivered[i].value.kind : i \in 1..Len(delivered)}

\* C2 (EOF protocol): with n the number of non-EOF tokens of the input, each
\* of the first n requests delivers a non-EOF token and done = false, request
\* n+1 delivers the EOF token without a value and done = true, no other
\* request delivers EOF, and EOF is delivered only with the cursor at the end.
C2_EOFOnceAfterAllTokens ==
  LET n == NumTokens(input)
  IN  /\ \A i \in 1..Len(delivered) :
           /\ (i <= n => /\ ~delivered[i].done
                         /\ delivered[i].value.kind \in TokenKinds \ {"EOF"})
           /\ (i = n + 1 => delivered[i].done /\ delivered[i].value = EOFToken)
           /\ (i > n + 1 => delivered[i].value.kind # "EOF")
      /\ (\E i \in 1..Len(delivered) : delivered[i].value.kind = "EOF")
           => gen.cur = Len(input)

\* the request after the one that delivered EOF has been made, n >= 3
C2_Witness ==
  /\ NumTokens(input) >= 3
  /\ Len(delivered) = NumTokens(input) + 2
  /\ delivered[NumTokens(input) + 1].value.kind = "EOF"

\* C3 (symbol tokens): the symbol tokens delivered are, in order and in
\* number, the symbol characters of the part of the input scanned so far (of
\* the whole input once finished), and none of them carries a value.
C3_SymbolTokens ==
  LET syms == SelectSeq(delivered, IsSymbolResult)
      txt == TextOf(delivered, Len(delivered))
  IN  /\ Len(txt) <= Len(input)
      /\ KindsOf(syms) = SelectSeq(SubSeq(input, 1, Len(txt)), IsSymbolChar)
      /\ \A i \in 1..Len(syms) : ~syms[i].value.hasValue /\ syms[i].value.value = <<>>
      /\ (gen.pc = "done" => KindsOf(syms) = SelectSeq(input, IsSymbolChar))

\* a finished run whose input has a symbol directly after a word and another
\* directly before a word
C3_Witness ==
  /\ gen.pc = "done"
  /\ \E i \in 2..(Len(input) - 1) :
       /\ input[i] \in symbols
       /\ CharClass(input[i - 1]) = "WORD"
       /\ CharClass(input[i + 1]) = "WORD"

\* C4 (maximal munch): every WORD / WHITESPACE token delivered has a
\* non-empty value that is a maximal run of its class in the input (the
\* characters before and after the run are not of the class), so no two
\* adjacent tokens are both WORD or both WHITESPACE; and once finished there
\* is exactly one such token per maximal run.
C4_MaximalMunch ==
  /\ \A i \in 1..Len(delivered) :
       LET t == delivered[i].value
           a == Len(TextOf(delivered, i - 1))
           b == a + Len(t.value)
       IN  t.kind \in {"WORD", "WHITESPACE"} =>
             /\ t.hasValue
             /\ Len(t.value) >= 1
             /\ b <= Len(input)
             /\ t.value = SubSeq(input, a + 1, b)
             /\ \A j \in (a + 1)..b : InClass(t.kind, input[j])
             /\ (a >= 1 => ~InClass(t.kind, input[a]))
             /\ (b < Len(input) => ~InClass(t.kind, input[b + 1]))
             /\ (i > 1 => delivered[i - 1].value.kind # t.kind)
  /\ gen.pc = "done" =>
       \A kind \in {"WORD", "WHITESPACE"} :
         Cardinality({i \in 1..Len(delivered) : delivered[i].value.kind = kind})
           = NumRuns(input, kind)

\* a finished run that delivered a two-character whitespace run and a
\* two-character word
C4_Witness ==
  /\ gen.pc = "done"
  /\ \E i, j \in 1..Len(delivered) :
       /\ delivered[i].value.kind = "WHITESPACE" /\ Len(delivered[i].value.value) = 2
       /\ delivered[j].value.kind = "WORD" /\ Len(delivered[j].value.value) = 2

\* C5 (no failure, termination): every result delivered up to the end is a
\* token of a known kind (no call fails), every call that yields a token moves
\* the cursor of the scanning loop forward by at least one character, at most
\* length(input) non-EOF tokens are delivered, and a caller that keeps asking
\* reaches the end of the sequence.
C5_NeverFailsAndTerminates ==
  /\ [](/\ \A i \in 1..Len(delivered) :
             delivered[i].value.kind \in TokenKinds \/ (i > 1 /\ delivered[i - 1].done)
        /\ NonEOFCount(delivered) <= Len(input)
        /\ ResumeCur(gen) <= Len(input))
  /\ [][(gen.pc # "done" /\ gen'.pc # "done") => ResumeCur(gen') >= ResumeCur(gen) + 1]_vars
  /\ <>(gen.pc = "done")

\* finished runs exist for an input ending in whitespace (the whitespace loop
\* then reads input[cur] past the end) with as many tokens as characters
C5_Witness ==
  /\ gen.pc = "done"
  /\ Len(input) >= 3
  /\ input[Len(input)] \in whitespace
  /\ NonEOFCount(delivered) = Len(input)

----------------------------------------------------------------------------
(* Claims about parse, checked under Spec *)

\* the strings C6 names
C6_Named ==
  {
    (* [] *)
    <<"[", "]">>,
    (* [X] *)
    <<"[", "X", "]">>,
    (* [X.X] *)
    <<"[", "X", ".", "X", "]">>,
    (* [X_1^2] *)
    <<"[", "X", "_", "1", "^", "2", "]">>,
    (* [X^2.X_1] *)
    <<"[", "X", "^", "2", ".", "X", "_", "1", "]">>,
    (* [X data] *)
    <<"[", "X", " ", "d", "a", "t", "a", "]">>,
    (*   [  X  data  ]    *)
    <<" ", " ", "[", " ", " ", "X", " ", " ", "d", "a", "t", "a", " ", " ", "]", " ", " ", " ">>,
    (* [X [X data] [Y data]] *)
    <<"[", "X", " ", "[", "X", " ", "d", "a", "t", "a", "]", " ", "[", "Y", " ", "d", "a", "t", "a", "]", "]">>,
    (* [XX /] *)
    <<"[", "X", "X", " ", "/", "]">>,
    (* [X [XX [] [Y [Z data] ] ] [] ] *)
    <<"[", "X", " ", "[", "X", "X", " ", "[", "]", " ", "[", "Y", " ", "[", "Z", " ", "d", "a", "t", "a", "]", " ", "]", " ", "]", " ", "[", "]", " ", "]">>,
    (* [X*X.X anything] *)
    <<"[", "X", "*", "X", ".", "X", " ", "a", "n", "y", "t", "h", "i", "n", "g", "]">>
  }

\* C6 (acceptance): once parse has finished on a string derivable from Node
\* in the EBNF (whitespace allowed between tokens, before and after the root),
\* or on one of the strings the claim names, it has returned a Tree and has
\* not thrown.
C6_Acceptance ==
  Finished(State) =>
    ((Derivable(input) \/ input \in C6_Named)
       => status = "returned" /\ ret[2] \in 1..Len(heap))

\* parse has returned on the deepest of the named strings, which is derivable
C6_Witness ==
  /\ status = "returned"
  /\ Derivable(input)
  /\ input = <<"[", "X", " ", "[", "X", "X", " ", "[", "]", " ", "[", "Y", " ",
               "[", "Z", " ", "d", "a", "t", "a", "]", " ", "]", " ", "]", " ",
               "[", "]", " ", "]">>

\* the strings C7 names
C7_Named ==
  {
    (* [ *)
    <<"[">>,
    (* [[] *)
    <<"[", "[", "]">>,
    (* []] *)
    <<"[", "]", "]">>,
    (* X[] *)
    <<"X", "[", "]">>,
    (* [X.] *)
    <<"[", "X", ".", "]">>,
    (* [X X []] *)
    <<"[", "X", " ", "X", " ", "[", "]", "]">>,
    (* [X [] X] *)
    <<"[", "X", " ", "[", "]", " ", "X", "]">>,
    (* [X /this_data ^starts with.punct* ] *)
    <<"[", "X", " ", "/", "t", "h", "i", "s", "_", "d", "a", "t", "a", " ", "^", "s", "t", "a", "r", "t", "s", " ", "w", "i", "t", "h", ".", "p", "u", "n", "c", "t", "*", " ", "]">>,
    (* [/ data] *)
    <<"[", "/", " ", "d", "a", "t", "a", "]">>,
    (* [X *] *)
    <<"[", "X", " ", "*", "]">>,
    (* [X* /] *)
    <<"[", "X", "*", " ", "/", "]">>
  }

\* C7 (rejection): once parse has finished on a string that is not derivable
\* from Node in the EBNF, or on one of the strings the claim names, it has
\* thrown and has returned no Tree.
C7_Rejection ==
  Finished(State) =>
    ((~Derivable(input) \/ input \in C7_Named) => status = "thrown")

\* parse has thrown on a string with a complete root node followed by `]`
C7_Witness ==
  /\ status = "thrown"
  /\ ~Derivable(input)
  /\ input = <<"[", "]", "]">>

\* what a type text of the chain inputs denotes
WrittenType(text) == WrittenTypes(<<"[">> \o text \o <<"]">>)[1]

\* the Tree is the chain ts, one child per link, carrying only at its deepest
\* link the children and the leaf of the Tree `rest`
RECURSIVE ChainShape(_, _, _)
ChainShape(t, ts, rest) ==
  /\ t.nodeType = <<WrittenType(ts[1])>>
  /\ IF Len(ts) = 1
       THEN t.children = rest.children /\ t.leaf = rest.leaf
       ELSE /\ t.leaf = <<>>
            /\ Len(t.children) = 1
            /\ ChainShape(t.children[1], Tail(ts), rest)

\* C8 (chain desugaring): when parse has returned, the Tree is the Tree parse
\* returns for the same input with every dot chain written as explicit
\* nesting; and for the inputs [T1.T2...Tn REST] it is the Tree of
\* [T1 [T2 ... [Tn REST]]]: the root is typed T1, every link but the last has
\* exactly one child and no leaf, and the children and leaf of REST sit on Tn.
C8_ChainDesugaring ==
  status = "returned" =>
    /\ LET nested == Nested(input)
           roles == Roles(nested)
           p == parse(nested)
       IN  /\ \A i \in 1..Len(roles) : roles[i] # "dot"
           /\ p.status = "returned"
           /\ TreeOf(p) = TreeOf(State)
    /\ input \in ChainInputs =>
         \A ts \in ChainTypeSeqs, rest \in ChainRests :
           input = ChainText(ts, rest) =>
             /\ parse(NestedText(ts, rest)).status = "returned"
             /\ TreeOf(State) = TreeOf(parse(NestedText(ts, rest)))
             /\ ChainShape(TreeOf(State), ts,
                           TreeOf(parse(<<"[", "R">> \o rest \o <<"]">>)))

\* parse has returned on a three-link chain whose REST is a node list
C8_Witness ==
  /\ status = "returned"
  /\ input = ChainText(<<(<<"Z", "^", "2", "_", "1">>), (<<"X">>), (<<"Y", "_", "1">>)>>,
                       <<" ", "[", "A", "]", " ", "[", "B", ".", "C", " ", "e", "]">>)
  /\ Len(TreeOf(State).children[1].children[1].children) = 2

\* C9 (script order): when parse has returned, the node types of the Tree
\* are, in order, the types written in the input with the word after `_` as
\* sub and the word after `^` as sup; [N_S^P] and [N^P_S] are both accepted
\* and both give {name: N, sub: S, sup: P}.
C9_ScriptOrder ==
  /\ status = "returned" =>
       /\ TypesIn(TreeOf(State)) = WrittenTypes(input)
       /\ \A n \in ScriptWords, s \in ScriptWords, p \in ScriptWords :
            input \in {SubSupText(n, s, p), SupSubText(n, s, p)} =>
              TreeOf(State).nodeType = <<[name |-> n, sub |-> s, sup |-> p]>>
  /\ (Finished(State) /\ input \in ScriptInputs) => status = "returned"

\* parse has returned on [NP^X_1]: the superscript written first
C9_Witness ==
  /\ status = "returned"
  /\ input = SupSubText(<<"N", "P">>, <<"1">>, <<"X">>)

\* C10 (collapsed leaves): when parse has returned, the leaves of the Tree
\* are, in order, the leaves written in the input: isCollapsed is true exactly
\* for those whose data starts with `*`, that `*` and the whitespace after it
\* are not in the data, and a later `*` is in the data and collapses nothing.
C10_CollapsedLeaves ==
  status = "returned" =>
    /\ LeavesIn(TreeOf(State)) = WrittenLeaves(input)
    /\ input = <<"[", "X", "*", " ", "d", "a", "t", "a", "]">> =>
         TreeOf(State).leaf = <<[data |-> <<"d", "a", "t", "a">>, isCollapsed |-> TRUE]>>
    /\ input = <<"[", "X", "*", "X", ".", "X", " ", "d", "a", "t", "a", "]">> =>
         TreeOf(State).leaf =
           <<[data |-> <<"X", ".", "X", " ", "d", "a", "t", "a">>, isCollapsed |-> TRUE]>>
    /\ input = <<"[", "X", " ", "a", "*", "]">> =>
         TreeOf(State).leaf = <<[data |-> <<"a", "*">>, isCollapsed |-> FALSE]>>

\* parse has returned on [X [Y* a] [Z b*c]]: a collapsed leaf and a leaf
\* with a later `*`
C10_Witness ==
  /\ status = "returned"
  /\ input = <<"[", "X", " ", "[", "Y", "*", " ", "a", "]", " ",
               "[", "Z", " ", "b", "*", "c", "]", "]">>
  /\ LeavesIn(TreeOf(State)) =
       <<[data |-> <<"a">>, isCollapsed |-> TRUE],
         [data |-> <<"b", "*", "c">>, isCollapsed |-> FALSE]>>

----------------------------------------------------------------------------
(* Reading the tokens of an input around one position *)

\* the kind of token j of the token kinds k; past the last token, EOF
KindAt(k, j) == IF j <= Len(k) THEN k[j] ELSE "EOF"

\* the first token after token i that is not whitespace (Len(k) + 1: EOF)
NextSignificant(k, i) ==
  CHOOSE j \in (i + 1)..(Len(k) + 1) :
    /\ KindAt(k, j) # "WHITESPACE"
    /\ \A x \in (i + 1)..(j - 1) : k[x] = "WHITESPACE"

\* how many of the first j tokens have the role
CountRole(roles, j, role) == Cardinality({x \in 1..j : roles[x] = role})

\* the tokens before token i can all be read and leave the root node open:
\* parse gets as far as token i
ReadableBefore(roles, i) ==
  \A x \in 1..(i - 1) :
    /\ roles[x] # "bad"
    /\ roles[x] = "close" => CountRole(roles, x, "open") > CountRole(roles, x, "close")

\* the tokens that are a `/` first after a type chain
NullTokens(roles) == {i \in 1..Len(roles) : roles[i] = "null"}

\* the kinds of a sequence of tokens
KindsIn(toks) == [i \in 1..Len(toks) |-> toks[i].kind]

NullLeaf == [data |-> NullMarker, isCollapsed |-> FALSE]
HasNullData(leaf) == leaf.data # <<>> /\ leaf.data[1] = NullMarker[1]

----------------------------------------------------------------------------
(* Claims about node contents and errors, checked under Spec *)

RECURSIVE TextBetween(_, _, _)
TextBetween(toks, a, b) ==
  IF a > b THEN <<>> ELSE toks[a].text \o TextBetween(toks, a + 1, b)

\* the input is one node [TYPE DATA]: a type with optional scripts, then data
\* that starts with a word, and nothing outside the brackets
SingleDataNode(roles) ==
  /\ Len(roles) >= 3
  /\ roles[1] = "open"
  /\ roles[Len(roles)] = "close"
  /\ \A i \in 2..(Len(roles) - 1) : roles[i] \in {"skip", "name", "script", "seed", "data"}
  /\ \E i \in 2..(Len(roles) - 1) : roles[i] = "seed"

\* the first word of the data, and the last token of the type before it
SeedIndex(roles) == CHOOSE i \in 1..Len(roles) : roles[i] = "seed"
TypeEnd(roles) ==
  CHOOSE i \in 1..SeedIndex(roles) :
    /\ roles[i] \in {"name", "script"}
    /\ \A x \in (i + 1)..(SeedIndex(roles) - 1) : roles[x] \notin {"name", "script"}

\* C12 as stated (verbatim capture): when parse has returned on one node
\* [TYPE DATA] whose data starts with a word, leaf.data is the input text
\* between the end of the type and the closing bracket.
C12_BetweenTypeAndBracket ==
  status = "returned" =>
    LET toks == Lex(input)
        roles == RolesFrom(KindsIn(toks), 1, "list")
    IN  SingleDataNode(roles) =>
          TreeOf(State).leaf =
            <<[data |-> TextBetween(toks, TypeEnd(roles) + 1, Len(toks) - 1),
               isCollapsed |-> FALSE]>>

\* C12 (verbatim capture, amended): when parse has returned on one node
\* [TYPE DATA] whose data starts with a word, leaf.data is the input text from
\* the first character of that word up to the closing bracket, symbols and
\* spacing included; the text between the type and the closing bracket is
\* that data preceded by the one whitespace run that separates type and data,
\* which is not in leaf.data.
C12_VerbatimFromSeed ==
  status = "returned" =>
    LET toks == Lex(input)
        roles == RolesFrom(KindsIn(toks), 1, "list")
    IN  /\ SingleDataNode(roles) =>
             /\ TreeOf(State).leaf =
                  <<[data |-> TextBetween(toks, SeedIndex(roles), Len(toks) - 1),
                     isCollapsed |-> FALSE]>>
             /\ SeedIndex(roles) = TypeEnd(roles) + 2
             /\ toks[TypeEnd(roles) + 1].kind = "WHITESPACE"
             /\ TextBetween(toks, TypeEnd(roles) + 1, Len(toks) - 1)
                  = toks[TypeEnd(roles) + 1].text \o TreeOf(State).leaf[1].data
             /\ TreeOf(State).children = <<>>
        /\ input = <<"[", "X", " ", "t", "h", "i", "s", "_", "d", "a", "t", "a", " ", "^",
                     " ", "h", "a", "s", ".", "/", "p", "u", "n", "c", "t", "*", " ", "]">>
             => /\ SingleDataNode(roles)
                /\ TreeOf(State).leaf[1].data =
                     <<"t", "h", "i", "s", "_", "d", "a", "t", "a", " ", "^", " ",
                       "h", "a", "s", ".", "/", "p", "u", "n", "c", "t", "*", " ">>

\* parse has returned on [X this_data ^ has./punct* ]
C12_Witness ==
  /\ status = "returned"
  /\ input = <<"[", "X", " ", "t", "h", "i", "s", "_", "d", "a", "t", "a", " ", "^",
               " ", "h", "a", "s", ".", "/", "p", "u", "n", "c", "t", "*", " ", "]">>
  /\ TreeOf(State).leaf # <<>>

\* the first position after position a (from 0) holding `[` or `]`; without
\* one, the position after the end of the string
BoundaryAfter(s, a) ==
  CHOOSE j \in (a + 1)..(Len(s) + 1) :
    /\ (j <= Len(s) => s[j] \in {"[", "]"})
    /\ \A x \in (a + 1)..(j - 1) : s[x] \notin {"[", "]"}

\* the input text from position a + 1 up to the next `[`, `]` or the end
CaptureAt(s, a) == SubSeq(s, a + 1, BoundaryAfter(s, a) - 1)

\* where (from 0) the seed words of the input start, in order
RECURSIVE SeedOffsetsFrom(_, _, _, _)
SeedOffsetsFrom(toks, roles, i, off) ==
  IF i > Len(toks) THEN <<>>
  ELSE (IF roles[i] = "seed" THEN <<off>> ELSE <<>>)
         \o SeedOffsetsFrom(toks, roles, i + 1, off + Len(toks[i].text))

IsTextLeaf(leaf) == ~HasNullData(leaf)
DataOf(leaves) == [i \in 1..Len(leaves) |-> leaves[i].data]

\* the leaf nodeData has just handed back to node (line 112) is a text leaf
TextLeafHandedBack ==
  status = "running" /\ Top(State).pc = "node:112" /\ IsTextLeaf(ret[2])

\* C13 (capture boundaries): a leaf nodeData hands back that was not made by
\* `/` holds the input text from the first character of a whole word up to
\* the first following `[`, `]` or the end of the input, and that bracket or
\* EOF is the lookahead; when parse has returned, the text leaves of the Tree
\* are, in order, the captures that start at the seed words of the input;
\* whitespace before the seed is dropped, whitespace inside the data and
\* before the closing bracket is kept.
C13_CaptureBoundaries ==
  /\ TextLeafHandedBack =>
       LET e == Len(TextOf(delivered, Len(delivered) - 1))
           a == e - Len(ret[2].data)
       IN  /\ Len(ret[2].data) >= 1
           /\ Len(ret[2].data) <= e
           /\ ret[2].data = CaptureAt(input, a)
           /\ BoundaryAfter(input, a) = e + 1
           /\ tok_peek.kind = KindAt(input, e + 1)
           /\ tok_peek.kind \in {"[", "]", "EOF"}
           /\ CharClass(input[a + 1]) = "WORD"
           /\ a >= 1
           /\ CharClass(input[a]) # "WORD"
  /\ status = "returned" =>
       LET toks == Lex(input)
           roles == RolesFrom(KindsIn(toks), 1, "list")
           seeds == SeedOffsetsFrom(toks, roles, 1, 0)
       IN  DataOf(SelectSeq(LeavesIn(TreeOf(State)), IsTextLeaf))
             = [n \in 1..Len(seeds) |-> CaptureAt(input, seeds[n])]
  /\ (status = "returned"
        /\ input = <<"[", "X", " ", " ", " ", " ", " ", " ", " ", "d", "a", "t", "a", "]">>)
       => TreeOf(State).leaf[1].data = <<"d", "a", "t", "a">>
  /\ (status = "returned"
        /\ input = <<"[", "X", " ", "d", "a", "t", "a", " ", " ", " ", " ",
                     "d", "a", "t", "a", "]">>)
       => TreeOf(State).leaf[1].data
            = <<"d", "a", "t", "a", " ", " ", " ", " ", "d", "a", "t", "a">>
  /\ (status = "returned"
        /\ input = <<"[", "X", " ", "d", "a", "t", "a", " ", " ", "]">>)
       => TreeOf(State).leaf[1].data = <<"d", "a", "t", "a", " ", " ">>

\* nodeData has handed back the leaf of [X data    data], stopped by `]`
C13_Witness ==
  /\ TextLeafHandedBack
  /\ input = <<"[", "X", " ", "d", "a", "t", "a", " ", " ", " ", " ",
               "d", "a", "t", "a", "]">>
  /\ tok_peek.kind = "]"
  /\ Len(ret[2].data) = 12

\* how many of the kinds are `kind`
CountKind(k, kind) == Cardinality({x \in 1..Len(k) : k[x] = kind})

\* the token kinds can be continued to a Node of the grammar: by nothing, a
\* word or an opening bracket, and then the closing brackets still owed
ViablePrefix(k) ==
  \E pre \in {<<>>, <<"WORD">>, <<"[">>} :
    /\ CountKind(k \o pre, "[") >= CountKind(k, "]")
    /\ DerivableKinds(k \o pre \o Repeat("]", CountKind(k \o pre, "[") - CountKind(k, "]")))

\* C14 (offending token): when parse has thrown, what it carries is the
\* kind of the lookahead token, the last token the tokenizer delivered; it is
\* a token kind and never WHITESPACE; the tokens before it can be continued
\* to a Node of the grammar and the tokens up to it cannot; it is EOF exactly
\* when the whole input can be continued to a Node, as for the empty input,
\* `[` and `[X data`.
C14_OffendingToken ==
  status = "thrown" =>
    LET k == KindsIn(Lex(input))
        x == Len(delivered)
    IN  /\ thrown = tok_peek.kind
        /\ tok_peek = delivered[x].value
        /\ thrown \in TokenKinds \ {"WHITESPACE"}
        /\ x <= Len(k) + 1
        /\ thrown = KindAt(k, x)
        /\ ViablePrefix(SubSeq(k, 1, x - 1))
        /\ (thrown # "EOF" => ~ViablePrefix(SubSeq(k, 1, x)))
        /\ (thrown = "EOF" <=> ViablePrefix(k))
        /\ (x >= 2 /\ k[x - 1] = "WHITESPACE") => delivered[x - 1].value.kind = "WHITESPACE"
        /\ input \in {<<>>, <<"[">>, <<"[", "X", " ", "d", "a", "t", "a">>} => thrown = "EOF"

\* parse has thrown on [X d]  ]: the offending `]` comes after whitespace
C14_Witness ==
  /\ status = "thrown"
  /\ input = <<"[", "X", " ", "d", "]", " ", " ", "]">>
  /\ thrown = "]"
  /\ delivered[Len(delivered) - 1].value.kind = "WHITESPACE"

\* the token that closes the bracket the first `[` opens (0: there is none)
RootClose(k) ==
  LET closing == {c \in 1..Len(k) :
                    /\ CountKind(SubSeq(k, 1, c), "[") >= 1
                    /\ CountKind(SubSeq(k, 1, c), "[") = CountKind(SubSeq(k, 1, c), "]")}
  IN  IF closing = {} THEN 0 ELSE CHOOSE c \in closing : \A d \in closing : c <= d

\* C15 (exactly one root): when parse has returned, the first significant
\* token is `[` and after the `]` that closes it comes at most one whitespace
\* run and then the end of the input; when the first significant token is not
\* `[`, parse has thrown with its kind; and when the tokens up to the `]` that
\* closes the first `[` are a Node of the grammar, parse has returned exactly if
\* no significant token follows that `]`, and has otherwise thrown with the
\* kind of the first one that does.
C15_ExactlyOneRoot ==
  Finished(State) =>
    LET k == KindsIn(Lex(input))
        c == RootClose(k)
        first == KindAt(k, NextSignificant(k, 0))
    IN  /\ status = "returned" =>
             /\ first = "["
             /\ c >= 1
             /\ c >= Len(k) - 1
             /\ (c = Len(k) - 1 => k[Len(k)] = "WHITESPACE")
        /\ first # "[" => status = "thrown" /\ thrown = first
        /\ (c >= 1 /\ DerivableKinds(SubSeq(k, 1, c))) =>
             /\ status = "returned" <=> KindAt(k, NextSignificant(k, c)) = "EOF"
             /\ status = "thrown" => thrown = KindAt(k, NextSignificant(k, c))
        /\ input \in {<<"[", "]", " ", "[", "]">>, <<"[", "]", "]">>, <<"X", "[", "]">>,
                      <<"[", "X", " ", "d", "]", " ", "e">>}
             => status = "thrown"

\* parse has thrown on the second root of [] []
C15_Witness ==
  /\ status = "thrown"
  /\ input = <<"[", "]", " ", "[", "]">>
  /\ thrown = "["
  /\ Len(heap) = 1

\* the kinds of the tokens of the input, with the EOF token after them
KindsWithEOF(s) == Append(KindsIn(Lex(s)), "EOF")

\* C16 (fail-fast): while parse runs and once it has thrown, the tokens the
\* tokenizer was asked for are the first tokens of the input, in order, each
\* once, the lookahead being the last of them; when parse has thrown, every
\* shorter run of tokens can be continued to a Node of the grammar (no earlier
\* mismatch), the tokenizer's cursor is where the offending token ends, no
\* frame of parse is left and no Tree was returned; the step that throws asks
\* for at most the one token after a skipped whitespace run; and nothing
\* happens after the throw.
C16_FailFast ==
  /\ [](status \in {"running", "thrown"} =>
          /\ Len(delivered) >= 1
          /\ Len(delivered) <= Len(KindsWithEOF(input))
          /\ KindsOf(delivered) = SubSeq(KindsWithEOF(input), 1, Len(delivered))
          /\ tok_peek = delivered[Len(delivered)].value)
  /\ [](status = "thrown" =>
          LET k == KindsIn(Lex(input))
              x == Len(delivered)
          IN  /\ \A y \in 0..(x - 1) : ViablePrefix(SubSeq(k, 1, y))
              /\ ~DerivableKinds(SubSeq(k, 1, x - 1)) \/ x <= Len(k)
              /\ ResumeCur(gen) = Len(TextOf(delivered, x))
              /\ stack = <<>>
              /\ thrown = delivered[x].value.kind)
  /\ [][status' = "thrown" =>
          /\ status = "running"
          /\ Len(delivered') <= Len(delivered) + 1
          /\ (Len(delivered') = Len(delivered) + 1 => tok_peek.kind = "WHITESPACE")
          /\ ret' = ret]_vars
  /\ [][status # "thrown"]_vars

\* parse has thrown on [A [B][C] [D at the end of the input, three complete
\* nodes and one incomplete node built, none returned
C16_Witness ==
  /\ status = "thrown"
  /\ input = <<"[", "A", " ", "[", "B", "]", "[", "C", "]", " ", "[", "D">>
  /\ thrown = "EOF"
  /\ Len(heap) = 4

----------------------------------------------------------------------------
(* Claims about the shape of the Tree, checked under Spec *)

\* the Tree objects of the heap that are part of the Tree object `id`
RECURSIVE NodesUnder(_, _)
NodesUnder(h, id) ==
  {id} \cup UNION {NodesUnder(h, h[id].children[i]) : i \in 1..Len(h[id].children)}

\* C17 (leaf/children exclusivity): when parse has returned, no node of the
\* Tree has both a leaf and children: a node with a leaf has no children, the
\* last link of a dot chain included, and a node with children has no leaf.
C17_LeafOrChildren ==
  status = "returned" =>
    \A id \in NodesUnder(heap, ret[2]) :
      /\ heap[id].leaf # <<>> => heap[id].children = <<>>
      /\ heap[id].children # <<>> => heap[id].leaf = <<>>
      /\ Len(heap[id].leaf) <= 1

\* parse has returned on [X.Y * a b ]: the leaf is on the last link Y, which
\* has no children, and X has the one child Y and no leaf
C17_Witness ==
  /\ status = "returned"
  /\ input = <<"[", "X", ".", "Y", " ", "*", " ", "a", " ", "b", " ", "]">>
  /\ heap[ret[2]].leaf = <<>>
  /\ Len(heap[ret[2]].children) = 1
  /\ heap[heap[ret[2]].children[1]].leaf # <<>>
  /\ heap[heap[ret[2]].children[1]].children = <<>>

\* the Tree objects under `id`, parents before children, children in order
RECURSIVE Preorder(_, _)
RECURSIVE PreorderAll(_, _, _)
PreorderAll(h, ids, n) ==
  IF n = 0 THEN <<>> ELSE PreorderAll(h, ids, n - 1) \o Preorder(h, ids[n])
Preorder(h, id) == <<id>> \o PreorderAll(h, h[id].children, Len(h[id].children))

\* the nodes written in the input, in order: one per `[` and one per dot of a
\* type chain; how each is written
RECURSIVE WrittenNodesFrom(_, _, _)
WrittenNodesFrom(k, roles, i) ==
  IF i > Len(k) THEN <<>>
  ELSE (IF roles[i] = "open"
          THEN <<[link |-> FALSE, empty |-> KindAt(k, NextSignificant(k, i)) = "]"]>>
        ELSE IF roles[i] = "dot" THEN <<[link |-> TRUE, empty |-> FALSE]>>
        ELSE <<>>)
         \o WrittenNodesFrom(k, roles, i + 1)

\* C18 (absent nodeType): when parse has returned, the nodes of the Tree
\* are, parents first and children from left to right, the nodes written in
\* the input; a node has no nodeType exactly when it is written as `[` `]`
\* with at most whitespace between, and then it has no children and no leaf;
\* every node made for a link of a dot chain has a nodeType with a name.
C18_AbsentNodeType ==
  status = "returned" =>
    LET k == KindsIn(Lex(input))
        written == WrittenNodesFrom(k, RolesFrom(k, 1, "list"), 1)
        nodes == Preorder(heap, ret[2])
    IN  /\ Len(nodes) = Len(written)
        /\ Len(nodes) = Len(heap)
        /\ \A n \in 1..Len(nodes) :
             /\ heap[nodes[n]].nodeType = <<>> <=> written[n].empty
             /\ heap[nodes[n]].nodeType = <<>> =>
                  heap[nodes[n]].children = <<>> /\ heap[nodes[n]].leaf = <<>>
             /\ written[n].link =>
                  /\ Len(heap[nodes[n]].nodeType) = 1
                  /\ heap[nodes[n]].nodeType[1].name # <<>>

\* parse has returned on [A.B [C d] [] [E.F [G]]]: the third child of B is
\* an empty node, B and F are links
C18_Witness ==
  /\ status = "returned"
  /\ input = <<"[", "A", ".", "B", " ", "[", "C", " ", "d", "]", " ", "[", "]", " ",
               "[", "E", ".", "F", " ", "[", "G", "]", "]", "]">>
  /\ LET b == TreeOf(State).children[1]
     IN  /\ b.children[2] = NewTree
         /\ b.children[3].children[1].nodeType # <<>>

\* for each node written in the input, in order, the number of the written
\* node it is written inside of (0 for the root): a `[` is inside the last
\* link of the enclosing bracket's type chain, a chain link inside the link
\* before it.  `open` holds the current last link of every bracket still open.
RECURSIVE ParentsFrom(_, _, _, _)
ParentsFrom(roles, i, open, count) ==
  IF i > Len(roles) THEN <<>>
  ELSE IF roles[i] = "open"
    THEN <<IF open = <<>> THEN 0 ELSE open[Len(open)]>>
           \o ParentsFrom(roles, i + 1, Append(open, count + 1), count + 1)
  ELSE IF roles[i] = "dot" /\ open # <<>>
    THEN <<open[Len(open)]>>
           \o ParentsFrom(roles, i + 1, [open EXCEPT ![Len(open)] = count + 1], count + 1)
  ELSE IF roles[i] = "close" /\ open # <<>>
    THEN ParentsFrom(roles, i + 1, SubSeq(open, 1, Len(open) - 1), count)
  ELSE ParentsFrom(roles, i + 1, open, count)

\* the type names of the nodes written in the input, in order: the word that
\* follows the `[` or the dot, <<>> for a node written without one
RECURSIVE WrittenNamesFrom(_, _, _)
WrittenNamesFrom(toks, roles, i) ==
  IF i > Len(toks) THEN <<>>
  ELSE (IF roles[i] \in {"open", "dot"}
          THEN LET j == NextSignificant(KindsIn(toks), i)
               IN  <<IF j <= Len(toks) /\ roles[j] = "name" THEN toks[j].text ELSE <<>>>>
          ELSE <<>>)
         \o WrittenNamesFrom(toks, roles, i + 1)

\* the name of a Tree object's nodeType, <<>> without one
NameOf(t) == IF t.nodeType = <<>> THEN <<>> ELSE t.nodeType[1].name

\* C19 (child order): when parse has returned, the Tree objects are, in the
\* order of their creation, the nodes written in the input from left to
\* right (the root first, each with the type name written for it), and the
\* children of each node are exactly the nodes written inside it, each once,
\* in the order in which they are written.
C19_ChildOrder ==
  status = "returned" =>
    LET toks == Lex(input)
        roles == RolesFrom(KindsIn(toks), 1, "list")
        parents == ParentsFrom(roles, 1, <<>>, 0)
        names == WrittenNamesFrom(toks, roles, 1)
    IN  /\ Len(heap) = Len(parents)
        /\ ret[2] = 1
        /\ \A n \in 1..Len(heap) : NameOf(heap[n]) = names[n]
        /\ \A p \in 1..Len(heap) :
             LET ch == heap[p].children
                 written == {n \in 1..Len(parents) : parents[n] = p}
             IN  /\ Len(ch) = Cardinality(written)
                 /\ {ch[c] : c \in 1..Len(ch)} = written
                 /\ \A c \in 1..(Len(ch) - 1) : ch[c] < ch[c + 1]
        /\ input = <<"[", "X", " ", "[", "Y", "]", " ", "[", "Z", "]", "]">> =>
             /\ Len(TreeOf(State).children) = 2
             /\ TreeOf(State).children[1].nodeType[1].name = <<"Y">>
             /\ TreeOf(State).children[2].nodeType[1].name = <<"Z">>

\* parse has returned on [A [B] [C [D] [E]] [F]]: three children, the second
\* with two children of its own
C19_Witness ==
  /\ status = "returned"
  /\ input = <<"[", "A", " ", "[", "B", "]", " ", "[", "C", " ", "[", "D", "]", " ",
               "[", "E", "]", "]", " ", "[", "F", "]", "]">>
  /\ Len(TreeOf(State).children) = 3
  /\ Len(TreeOf(State).children[2].children) = 2
  /\ NameOf(TreeOf(State).children[2].children[2]) = <<"E">>

----------------------------------------------------------------------------
(* Claims relating parse on two inputs, checked under Spec *)

\* the whitespace runs inserted
InsertedRuns == {<<" ">>, <<"\t", "\n">>}

\* the input with the run w inserted after its token g (0: before the first)
InsertAt(toks, g, w) ==
  TextBetween(toks, 1, g) \o w \o TextBetween(toks, g + 1, Len(toks))

\* token g and token g + 1 are both inside captured data
BothInData(roles, g) ==
  /\ g >= 1 /\ g < Len(roles)
  /\ roles[g] \in {"seed", "data"}
  /\ roles[g + 1] = "data"

\* token g is the last token of captured data and token g + 1 the `]` after it
DataThenClose(roles, g) ==
  /\ g >= 1 /\ g < Len(roles)
  /\ roles[g] \in {"seed", "data"}
  /\ roles[g + 1] = "close"

\* parse on the other string ends as this run has ended, with the same Tree
SameOutcome(str) ==
  LET p == parse(str)
  IN  /\ p.status = status
      /\ status = "returned" => TreeOf(p) = TreeOf(State)

\* C20 as stated (whitespace insignificance): when parse has finished, a
\* whitespace run inserted between any two adjacent tokens that are not both
\* inside captured data, before the first token or after the last, changes
\* neither whether parse returns nor the Tree.
C20_AnyGapOutsideData ==
  Finished(State) =>
    LET toks == Lex(input)
        roles == RolesFrom(KindsIn(toks), 1, "list")
    IN  \A g \in 0..Len(toks) : \A w \in InsertedRuns :
          ~BothInData(roles, g) => SameOutcome(InsertAt(toks, g, w))

\* C20 (whitespace insignificance, amended): the same, except between the
\* last token of captured data and the `]` that follows it, where the
\* inserted run becomes part of leaf.data.
C20_WhitespaceOutsideData ==
  Finished(State) =>
    LET toks == Lex(input)
        roles == RolesFrom(KindsIn(toks), 1, "list")
    IN  \A g \in 0..Len(toks) : \A w \in InsertedRuns :
          /\ (~BothInData(roles, g) /\ ~DataThenClose(roles, g))
               => SameOutcome(InsertAt(toks, g, w))
          /\ (status = "returned" /\ DataThenClose(roles, g))
               => /\ parse(InsertAt(toks, g, w)).status = "returned"
                  /\ TreeOf(parse(InsertAt(toks, g, w))) # TreeOf(State)

\* parse has returned on [X^2.X_1], a run to insert between any two tokens
C20_Witness ==
  /\ status = "returned"
  /\ input = <<"[", "X", "^", "2", ".", "X", "_", "1", "]">>
  /\ TreeOf(parse(<<" ", "[", " ", "X", " ", "^", " ", "2", " ", ".", " ", "X",
                    " ", "_", " ", "1", " ", "]", " ">>)) = TreeOf(State)

----------------------------------------------------------------------------
(* Claims about two calls, checked under PairSpec *)

\* a bare tokenizer sequence on the string, run alone, after n calls of next()
RECURSIVE SoloTokenizer(_, _)
SoloTokenizer(str, n) ==
  IF n = 0 THEN CallState(str)
  ELSE LET c == SoloTokenizer(str, n - 1)
       IN  TokenizerNext(c, GenNext(str, c.gen))

\* the state x is a state of the run of parse that starts in s, run alone
RECURSIVE OnSoloRun(_, _)
OnSoloRun(s, x) == s = x \/ (~Finished(s) /\ OnSoloRun(Step(s), x))

\* the call is where the same call, run alone, gets to
AsAlone(c) ==
  /\ c.status = "idle" => c = SoloTokenizer(c.input, Len(c.delivered))
  /\ c.status # "idle" => OnSoloRun(CallState(c.input), c)
  /\ Finished(c) => c = parse(c.input)

----------------------------------------------------------------------------
(* Further claims about parse, checked under Spec *)

\* the tokens that are type names, in order
RECURSIVE NameTokensFrom(_, _)
NameTokensFrom(roles, i) ==
  IF i > Len(roles) THEN <<>>
  ELSE (IF roles[i] = "name" THEN <<i>> ELSE <<>>) \o NameTokensFrom(roles, i + 1)

\* the word written as script `sym` for the type whose name is token i: the
\* word after `sym` when `sym` directly follows the name, or follows the
\* other script of the name; <<>> when no such script is written
WrittenScript(toks, k, i, sym) ==
  LET s1 == NextSignificant(k, i)
      w1 == NextSignificant(k, s1)
      s2 == NextSignificant(k, w1)
      w2 == NextSignificant(k, s2)
  IN  IF KindAt(k, s1) = sym /\ KindAt(k, w1) = "WORD" THEN toks[w1].text
      ELSE IF /\ KindAt(k, s1) \in {"_", "^"}
              /\ KindAt(k, w1) = "WORD"
              /\ KindAt(k, s2) = sym
              /\ KindAt(k, w2) = "WORD" THEN toks[w2].text
      ELSE <<>>

\* C22 (scripts default to empty): when parse has returned, the node types
\* of the Tree are, in order, those of the type names written; each has the
\* written name, which is not empty; its sub is empty exactly when no `_` word
\* is written for that name and is otherwise that word, and its sup likewise
\* with `^`; a written script is a word, so never empty.
C22_ScriptDefaults ==
  status = "returned" =>
    LET toks == Lex(input)
        k == KindsIn(toks)
        names == NameTokensFrom(RolesFrom(k, 1, "list"), 1)
        types == TypesIn(TreeOf(State))
    IN  /\ Len(types) = Len(names)
        /\ \A n \in 1..Len(types) :
             /\ types[n].name = toks[names[n]].text
             /\ types[n].name # <<>>
             /\ types[n].sub = WrittenScript(toks, k, names[n], "_")
             /\ types[n].sup = WrittenScript(toks, k, names[n], "^")
             /\ types[n].sub = <<>> <=>
                  ~(\/ KindAt(k, NextSignificant(k, names[n])) = "_"
                    \/ /\ KindAt(k, NextSignificant(k, names[n])) = "^"
                       /\ KindAt(k, NextSignificant(k, NextSignificant(k,
                                   NextSignificant(k, names[n])))) = "_")
             /\ types[n].sup = <<>> <=>
                  ~(\/ KindAt(k, NextSignificant(k, names[n])) = "^"
                    \/ /\ KindAt(k, NextSignificant(k, names[n])) = "_"
                       /\ KindAt(k, NextSignificant(k, NextSignificant(k,
                                   NextSignificant(k, names[n])))) = "^")

\* parse has returned on [Z^2_1.X.Y_1 d]: both scripts, none, and only a sub
C22_Witness ==
  /\ status = "returned"
  /\ input = ChainText(<<(<<"Z", "^", "2", "_", "1">>), (<<"X">>), (<<"Y", "_", "1">>)>>,
                       <<" ", "d">>)
  /\ TypesIn(TreeOf(State)) =
       <<[name |-> <<"Z">>, sub |-> <<"1">>, sup |-> <<"2">>],
         [name |-> <<"X">>, sub |-> <<>>, sup |-> <<>>],
         [name |-> <<"Y">>, sub |-> <<"1">>, sup |-> <<>>]>>

\* token j of the input as the tokenizer delivers it: after the last token
\* of the input the EOF token, after that nothing
TokenAt(toks, j) ==
  IF j <= Len(toks)
    THEN IF toks[j].kind \in symbols THEN SymbolToken(toks[j].kind)
         ELSE Token(toks[j].kind, TRUE, toks[j].text)
  ELSE IF j = Len(toks) + 1 THEN EOFToken
  ELSE NoToken

\* the kinds accept is asked for, directly or through expect
AcceptKinds == symbols \cup {"WORD", "EOF"}

\* C23 (frame of accept): wherever parse is running with a token as
\* lookahead, for every kind but WHITESPACE: with la the lookahead, or the
\* token after it when the lookahead is WHITESPACE, accept(kind) returns la and
\* makes the token after la the lookahead (none after EOF) when la is of the
\* kind, and otherwise returns nothing and leaves la as lookahead, having asked
\* the tokenizer for no token past la; it changes nothing else.
C23_AcceptFrame ==
  (status = "running" /\ tok_peek # NoToken) =>
    LET toks == Lex(input)
        x == Len(delivered)
        la == IF tok_peek.kind = "WHITESPACE" THEN x + 1 ELSE x
    IN  /\ tok_peek = TokenAt(toks, x)
        /\ TokenAt(toks, la).kind # "WHITESPACE"
        /\ \A kind \in AcceptKinds :
             \A a \in {accept(State, kind)} :
               /\ a.st.status = "running"
               /\ a.ok <=> TokenAt(toks, la).kind = kind
               /\ a.ok => /\ a.tok = TokenAt(toks, la)
                          /\ a.st.tok_peek = TokenAt(toks, la + 1)
                          /\ Len(a.st.delivered) = la + 1
               /\ ~a.ok => /\ a.tok = NoToken
                           /\ a.st.tok_peek = TokenAt(toks, la)
                           /\ Len(a.st.delivered) = la
               /\ SubSeq(a.st.delivered, 1, x) = delivered
               /\ a.st.input = input
               /\ a.st.stack = stack
               /\ a.st.heap = heap
               /\ a.st.ret = ret
               /\ a.st.thrown = thrown

\* accept('_') of nodeType has skipped a whitespace run and consumed the `_`
\* after it
C23_Witness ==
  /\ status = "running"
  /\ Top(State).pc = "nt:127"
  /\ Len(delivered) >= 3
  /\ delivered[Len(delivered) - 2].value.kind = "WHITESPACE"
  /\ delivered[Len(delivered) - 1].value.kind = "_"

\* the program points that only look at the lookahead or store a result
InspectingPcs ==
  {"node:92", "node:93", "node:97", "node:102", "node:104", "node:112", "nl:145"}

\* the program points that only skip a pending whitespace token
SkippingPcs == {"parse:59", "node:91", "nl:144", "nl:146"}

\* the program point of the step about to be taken
PcNow == IF status = "idle" THEN "parse:56" ELSE stack[Len(stack)].pc

\* C24 (one-token lookahead): once parse has begun, the tokens requested are
\* the first tokens of the input, in order and each once (after the EOF
\* token, once it is consumed, one request that finds the sequence finished),
\* and the lookahead is the last of them, the only one not yet consumed; a
\* step never takes back a requested token; a step that only inspects
\* requests none, a step that only
\* skips whitespace requests one when the lookahead is WHITESPACE and else
\* none, a step of the capture loop requests one when it consumes the
\* lookahead, and an accept or expect requests one per token it consumes: the
\* skipped whitespace token and the matched token.
C24_OneTokenLookahead ==
  /\ [](status # "idle" =>
          /\ Len(delivered) >= 1
          /\ \A i \in 1..Len(delivered) : delivered[i].value = TokenAt(Lex(input), i)
          /\ \A i \in 1..Len(delivered) :
               delivered[i].done <=> i > Len(Lex(input))
          /\ tok_peek = delivered[Len(delivered)].value)
  /\ [][LET n == Len(delivered)
            asked == Len(delivered') - n
        IN  /\ Len(delivered') >= n
            /\ SubSeq(delivered', 1, n) = delivered
            /\ asked = 0 => tok_peek' = tok_peek
            /\ PcNow = "parse:56" => asked = 1
            /\ PcNow \in InspectingPcs => asked = 0
            /\ PcNow \in SkippingPcs =>
                 asked = (IF tok_peek.kind = "WHITESPACE" THEN 1 ELSE 0)
            /\ PcNow = "nd:164" =>
                 asked = (IF tok_peek.kind \in {"[", "]", "EOF"} THEN 0 ELSE 1)
            /\ PcNow \notin InspectingPcs \cup SkippingPcs \cup {"nd:164", "parse:56"} =>
                 /\ asked <= 2
                 /\ asked = 2 =>
                      tok_peek.kind = "WHITESPACE" /\ delivered'[n + 1].value.kind # "WHITESPACE"
                 /\ (asked = 1 /\ tok_peek.kind # "WHITESPACE") => status' # "thrown"
                 /\ (asked = 0) => tok_peek.kind # "WHITESPACE"]_vars

\* the capture loop has consumed a whitespace token of the data of
\* [X data    data] and holds the word after it as lookahead
C24_Witness ==
  /\ status = "running"
  /\ input = <<"[", "X", " ", "d", "a", "t", "a", " ", " ", " ", " ",
               "d", "a", "t", "a", "]">>
  /\ Top(State).pc = "nd:164"
  /\ Len(delivered) = 6
  /\ delivered[5].value.kind = "WHITESPACE"
  /\ tok_peek.kind = "WORD"

----------------------------------------------------------------------------
(* Claims about termination, checked under FairSpec *)

\* how many frames of the stack are calls of node past its expect('[')
NodesUnderWay(st) ==
  Cardinality({i \in 1..Len(st) : st[i].fn = "node" /\ st[i].pc # "node:87"})

\* how many of the delivered results are tokens of the kind
DeliveredOf(d, kind) == Cardinality({i \in 1..Len(d) : d[i].value.kind = kind})

\* how many tokens of the kind are consumed: delivered and no longer lookahead
ConsumedOf(d, kind) == DeliveredOf(SubSeq(d, 1, Len(d) - 1), kind)

\* C25 (termination): parse, once called, returns or throws; meanwhile
\* there are never more calls of node past their expect('[') than `[` tokens
\* consumed, nor more Tree objects than `[` and `.` tokens consumed (one more
\* when expect('[') has thrown), nor more requests than the input has tokens,
\* plus the EOF token and the request after it; every call of node that goes
\* on has consumed a `[`, every iteration of the dot-chain loop a `.`, every
\* iteration of the node-list loop starts on a `[` that the node it calls
\* consumes, and every iteration of the capture loop consumes the lookahead.
C25_Terminates ==
  /\ <>Finished(State)
  /\ [](status # "idle" =>
          /\ NodesUnderWay(stack) <= ConsumedOf(delivered, "[")
          /\ Len(heap) <= ConsumedOf(delivered, "[") + ConsumedOf(delivered, ".")
                            + (IF status = "thrown" THEN 1 ELSE 0)
          /\ Len(delivered) <= Len(Lex(input)) + 2
          /\ Len(stack) <= 2 * ConsumedOf(delivered, "[") + 3)
  /\ [][/\ (PcNow = "node:87" /\ status' = "running") =>
             /\ Len(delivered') > Len(delivered)
             /\ ConsumedOf(delivered', "[") = ConsumedOf(delivered, "[") + 1
        /\ (PcNow = "node:94" /\ status' = "running" /\ Len(stack') > Len(stack)) =>
             /\ Len(delivered') > Len(delivered)
             /\ ConsumedOf(delivered', ".") = ConsumedOf(delivered, ".") + 1
        /\ (PcNow = "nl:145" /\ Len(stack') > Len(stack)) =>
             tok_peek.kind = "[" /\ stack'[Len(stack')].pc = "node:87"
        /\ (PcNow = "nd:164" /\ status' = "running" /\ Len(stack') = Len(stack)) =>
             Len(delivered') = Len(delivered) + 1]_vars

\* parse has returned on [A.B [C d] [] [E.F [G]]] with seven Tree objects
\* for five `[` and two chain dots
C25_Witness ==
  /\ status = "returned"
  /\ input = <<"[", "A", ".", "B", " ", "[", "C", " ", "d", "]", " ", "[", "]", " ",
               "[", "E", ".", "F", " ", "[", "G", "]", "]", "]">>
  /\ Len(heap) = 7
  /\ ConsumedOf(delivered, "[") = 5
  /\ ConsumedOf(delivered, ".") = 2

----------------------------------------------------------------------------
(* C26: the lookahead where its kind is read directly *)

\* the program points that read tok_peek.kind without accept or expect: the
\* test for WORD (92), the NodeList/NodeData decision (102), the loop test of
\* nodeList (145)
DirectReadPcs == {"node:92", "node:102", "nl:145"}

\* the kind of the last token consumed before the lookahead that is not
\* WHITESPACE ("none" when there is none)
LastSignificant(d) ==
  LET idx == {i \in 1..(Len(d) - 1) : d[i].value.kind # "WHITESPACE"}
  IN  IF idx = {} THEN "none"
      ELSE d[CHOOSE i \in idx : \A j \in idx : j <= i].value.kind

\* C26 (lookahead where the kind is read directly): at the test for WORD
\* after `[`, at the NodeList/NodeData decision and at the loop test of
\* nodeList the lookahead is not a WHITESPACE token; at the test for WORD the
\* last token consumed, whitespace aside, is the `[` of the node, and at the
\* decision it is the last WORD of the type chain, so a WORD lookahead after
\* `[` always starts a type and the content is never skipped as whitespace.
C26_NoWhitespaceLookahead ==
  /\ [](status = "running" /\ PcNow \in DirectReadPcs =>
          /\ tok_peek.kind # "WHITESPACE"
          /\ PcNow = "node:92" => LastSignificant(delivered) = "["
          /\ PcNow = "node:102" => LastSignificant(delivered) = "WORD")
  /\ [][/\ (status = "running" /\ PcNow = "node:92" /\ tok_peek.kind = "WORD") =>
             /\ status' = "running"
             /\ stack'[Len(stack')].fn = "nodeType"
        /\ (status = "running" /\ PcNow = "node:102"
              /\ tok_peek.kind \notin {"]", "EOF"}) =>
             /\ status' = "running"
             /\ stack'[Len(stack')].fn \in {"nodeList", "nodeData"}]_vars

\* nodeList is at its loop test after its first node, the whitespace after
\* that node skipped and the `[` of the next node the lookahead
C26_Witness ==
  /\ AtPc("nl:145")
  /\ Len(Top(State).nodes) = 1
  /\ Len(delivered) >= 2
  /\ delivered[Len(delivered) - 1].value.kind = "WHITESPACE"
  /\ tok_peek.kind = "["

----------------------------------------------------------------------------
(* C27: nothing is read beyond EOF *)

\* C27 (nothing beyond EOF): while parse runs the lookahead is a token, never
\* undefined, the EOF token is not yet consumed and the token sequence has
\* not been asked beyond it; no call ends with the TypeError of reading the
\* kind of undefined; a step that consumes the EOF token is the
\* expect('EOF') of parse itself, after the root node, and is the step that
\* returns; the capture loop, finding EOF, returns its leaf and requests
\* nothing.
C27_NothingBeyondEOF ==
  /\ [](/\ status = "running" =>
             /\ tok_peek # NoToken
             /\ Len(delivered) >= 1
             /\ tok_peek = delivered[Len(delivered)].value
             /\ ConsumedOf(delivered, "EOF") = 0
             /\ \A i \in 1..Len(delivered) : delivered[i].value # NoToken
        /\ thrown # TypeError
        /\ tok_peek = NoToken => status \in {"idle", "returned"})
  /\ [][/\ (status = "running" /\ tok_peek.kind = "EOF"
              /\ Len(delivered') > Len(delivered)) =>
             /\ PcNow = "parse:61"
             /\ Len(stack) = 1
             /\ stack[1].root = 1
             /\ status' = "returned"
        /\ (status = "running" /\ PcNow = "nd:164" /\ tok_peek.kind = "EOF") =>
             /\ delivered' = delivered
             /\ tok_peek' = tok_peek
             /\ Len(stack') = Len(stack) - 1]_vars

\* the capture loop of [X data has stopped at EOF: nodeData has returned
\* its leaf, EOF is still the lookahead
C27_Witness ==
  /\ AtPc("node:112")
  /\ input = <<"[", "X", " ", "d", "a", "t", "a">>
  /\ tok_peek.kind = "EOF"
  /\ ret[2].data = <<"d", "a", "t", "a">>

----------------------------------------------------------------------------
(* C28: the shape of leaf data *)

\* the first characters of the WORD tokens
WordHeads(toks) ==
  {toks[i].text[1] : i \in {j \in 1..Len(toks) : toks[j].kind = "WORD"}}

\* data is not empty, holds no bracket, and begins neither with whitespace
\* nor with a symbol character
WellFormedData(d) ==
  /\ Len(d) >= 1
  /\ \A i \in 1..Len(d) : d[i] \notin {"[", "]"}
  /\ ~whitespace_test(d[1])
  /\ ~symbols_test(d[1])

\* C28 (leaf data): in the Tree parse returns, the data of every leaf is
\* non-empty, contains neither `[` nor `]`, and begins neither with a
\* whitespace character nor with one of the seven symbol characters: it
\* is the null marker or begins with the first character of a WORD of the
\* input.
C28_LeafData ==
  status = "returned" =>
    LET heads == WordHeads(Lex(input))
    IN  \A id \in 1..Len(heap) :
          heap[id].leaf # <<>> =>
            /\ WellFormedData(heap[id].leaf[1].data)
            /\ \/ heap[id].leaf[1].data = NullMarker
               \/ heap[id].leaf[1].data[1] \in heads

\* parse has returned on [X this_data ^ has./punct* ]: the data begins with
\* the t of the word and holds symbols and whitespace after it
C28_Witness ==
  /\ status = "returned"
  /\ Len(heap) = 1
  /\ heap[1].leaf # <<>>
  /\ heap[1].leaf[1].data[1] = "t"
  /\ \E i, j, k \in 2..Len(heap[1].leaf[1].data) :
        /\ heap[1].leaf[1].data[i] = "^"
        /\ heap[1].leaf[1].data[j] = "*"
        /\ heap[1].leaf[1].data[k] = " "

----------------------------------------------------------------------------
(* C29: counting brackets and nodes *)

\* how many characters of the string are ch
CountChar(s, ch) == Cardinality({i \in 1..Len(s) : s[i] = ch})

\* how many characters ch the leaf data of the first n Tree objects hold
RECURSIVE InLeafData(_, _, _)
InLeafData(h, n, ch) ==
  IF n = 0 THEN 0
  ELSE InLeafData(h, n - 1, ch)
         + (IF h[n].leaf = <<>> THEN 0 ELSE CountChar(h[n].leaf[1].data, ch))

\* C29 (counting): when parse has returned, the input has as many `[` as `]`
\* characters, no leaf data holds a bracket, and the Tree has one node per
\* `[` and one per `.` that separates two types of a chain: the dots of the
\* input that are not in leaf data, which are the dots read as separators
\* when the input is read by the grammar.
C29_Counting ==
  status = "returned" =>
    LET roles == RolesFrom(KindsIn(Lex(input)), 1, "list")
        opens == CountChar(input, "[")
        chainDots == CountChar(input, ".") - InLeafData(heap, Len(heap), ".")
    IN  /\ opens = CountChar(input, "]")
        /\ InLeafData(heap, Len(heap), "[") = 0
        /\ InLeafData(heap, Len(heap), "]") = 0
        /\ chainDots = CountRole(roles, Len(roles), "dot")
        /\ Cardinality(NodesUnder(heap, ret[2])) = opens + chainDots
        /\ Len(heap) = opens + chainDots

\* parse has returned a Tree with a chain of types, several nodes written
\* with `[`, and a dot inside leaf data
C29_Witness ==
  /\ status = "returned"
  /\ CountChar(input, "[") >= 2
  /\ InLeafData(heap, Len(heap), ".") >= 1
  /\ CountChar(input, ".") >= 2
  /\ Len(heap) > CountChar(input, "[")

----------------------------------------------------------------------------
(* C30: how NodeData can begin *)

\* the kinds of the two script symbols
ScriptKinds == {"_", "^"}

\* nodeData is under way, nothing taken yet, and the lookahead is a script
\* symbol
ScriptAtDataStart ==
  /\ status = "running"
  /\ Top(State).fn = "nodeData"
  /\ Top(State).data = <<>>
  /\ tok_peek.kind \in ScriptKinds

\* C30 (how NodeData begins): a `.` is never the lookahead at the
\* NodeList/NodeData decision; with `_` or `^` the lookahead there, nodeData
\* is entered, and from its first statement on it takes nothing and ends by
\* throwing the unexpected-token error that names that symbol; nodeData,
\* when it returns, has taken `/`, or a WORD, possibly after `*`, first; and
\* in the Tree parse returns no leaf data begins with `.`, `_` or `^`.
C30_DataStart ==
  /\ [](/\ AtPc("node:102") => tok_peek.kind # "."
        /\ AtPc("node:112") =>
             \/ ret[2] = NullLeaf
             \/ /\ ret[2].data # <<>>
                /\ ret[2].data[1] \in WordHeads(Lex(input))
        /\ status = "returned" =>
             \A id \in 1..Len(heap) :
               heap[id].leaf # <<>> =>
                 /\ heap[id].leaf[1].data # <<>>
                 /\ heap[id].leaf[1].data[1] \notin {".", "_", "^"})
  /\ [][/\ (AtPc("node:102") /\ tok_peek.kind \in ScriptKinds) =>
             /\ status' = "running"
             /\ Len(stack') = Len(stack) + 1
             /\ stack'[Len(stack')].fn = "nodeData"
             /\ stack'[Len(stack')].pc = "nd:157"
             /\ tok_peek' = tok_peek
        /\ (ScriptAtDataStart /\ PcNow \in {"nd:157", "nd:160"}) =>
             /\ status' = "running"
             /\ Len(stack') = Len(stack)
             /\ stack'[Len(stack')].pc = (IF PcNow = "nd:157" THEN "nd:160" ELSE "nd:163")
             /\ stack'[Len(stack')].data = <<>>
             /\ delivered' = delivered
             /\ tok_peek' = tok_peek
        /\ (ScriptAtDataStart /\ PcNow = "nd:163") =>
             /\ status' = "thrown"
             /\ thrown' = tok_peek.kind
             /\ delivered' = delivered]_vars

\* parse has thrown on [X_1_2]: the second `_` was the lookahead at the
\* decision, and the error names it
C30_Witness ==
  /\ status = "thrown"
  /\ input = <<"[", "X", "_", "1", "_", "2", "]">>
  /\ thrown = "_"
  /\ Len(delivered) = 5
  /\ Len(heap) = 1

====
